---- MODULE Spec2Model ----
(***************************************************************************)
(* A model of the trust core of the messaging client: the contact list     *)
(* (trust-on-first-use store), the per-conversation histories, the poll    *)
(* dispatcher checkGlobalMessages with its sub-handlers, and the user's    *)
(* handlers of the contact-details, contacts and chat screens.             *)
(*                                                                         *)
(* Every handler of the source is an async function: between its secureGet *)
(* and its secureSet it awaits, so any other handler can run in between.   *)
(* A handler is therefore two steps here, the read and the write, and the  *)
(* copy it read is part of its state.                                      *)
(*                                                                         *)
(* Cryptography is symbolic: an envelope records the key that sealed it    *)
(* and the key it was sealed for; nacl.box.open succeeds exactly under the *)
(* matching pair.  Strings are drawn from small named sets.                *)
(***************************************************************************)
EXTENDS Integers, Sequences, FiniteSets, TLC

----------------------------------------------------------------------------
(* Bounds of the model *)

\* delivery ids the relay assigns in one run
MaxDeliveries == 1
\* invocations of checkGlobalMessages in one run
MaxPolls == 2
\* handlers the user starts in one run
MaxUserOps == 1
\* ticks of the clock in one run
MaxTicks == 2
\* characters of a text
MaxLen == 2

----------------------------------------------------------------------------
(* Values *)

\* a stored record that may be absent: <<>> is "no item", <<v>> is the item v
None == <<>>
Some(v) == <<v>>
Has(o) == Len(o) = 1
Val(o) == o[1]

\* JavaScript truthiness of the strings of the model: "" is the empty string
\* and also stands for undefined; "null" is null
Truthy(s) == s \notin {"", "null", "undef"}

\* this installation's box public key (bytes, written as lowercase hex)
MyKey == "me"

\* strings of 64 hex digits: four keys in lowercase, one also in uppercase
HexKeys == {"aa", "bb", "cc", "dd", "CC"}
\* strings of 12 hex digits
HexIds == {"ID1", "ID2", "ID3"}
\* every id a record is stored under ("bad" is not 12 hex digits)
Ids == HexIds \cup {"bad"}

toLowerCase(s) == IF s = "CC" THEN "cc" ELSE s

\* the bytes of a hex string: parseInt(byte, 16) reads both cases
fromHex(s) == toLowerCase(s)

\* the lowercase hex of key bytes
toHex(b) == b

Contact(id, key, name, avatar) ==
  [id |-> id, key |-> key, name |-> name, alias |-> "", avatar |-> avatar,
   isSelf |-> FALSE, isBlocked |-> FALSE, isVerified |-> FALSE,
   securityWarning |-> FALSE, pendingNewKey |-> ""]

NoContact == Contact("", "", "", "null")

\* list.findIndex(c => c.id === id), 0 for -1
findIndex(list, id) ==
  IF \E k \in 1..Len(list) : list[k].id = id
  THEN CHOOSE k \in 1..Len(list) :
         /\ list[k].id = id
         /\ \A j \in 1..(k - 1) : list[j].id # id
  ELSE 0

\* a decrypted payload.  type is the part after GHOST_SIGNAL: ("TEXT" for a
\* payload with no prefix, "MEDIA" for GHOST_MEDIA:); json tells whether the
\* JSON part parses (for MEDIA: whether type tag and size are allowed)
Body(type, text, id, key, name, avatar, json) ==
  [type |-> type, text |-> text, id |-> id, key |-> key, name |-> name,
   avatar |-> avatar, json |-> json]

Text(t) == Body("TEXT", t, "", "", "", "undef", TRUE)
Signal(type) == Body(type, type, "", "", "", "undef", TRUE)
Accept(id, key, name, json) == Body("ACCEPT", "ACCEPT", id, key, name, "undef", json)
ProfileUpdate(name, avatar, json) ==
  Body("PROFILE_UPDATE", "PROFILE_UPDATE", "", "", name, avatar, json)
Media(ok) == Body("MEDIA", "MEDIA", "", "", "", "undef", ok)

NoBody == Text("")

\* an envelope on the wire.  form: "known" is nonce || ciphertext, "anon" is
\* senderPublicKey || nonce || ciphertext, "garbage" is content that is not
\* base64.  from: the public key of the secret key that sealed it; to: the
\* public key it was sealed for; claimed: the key bytes prefixed to the
\* anonymous form
Envelope(form, from, to, claimed, body) ==
  [form |-> form, from |-> from, to |-> to, claimed |-> claimed, body |-> body]

Seal(body, from) == Envelope("known", from, MyKey, "", body)
SealAnonymous(body, from, claimed) == Envelope("anon", from, MyKey, claimed, body)
Garbage == Envelope("garbage", "", "", "", NoBody)

\* length of the plaintext in characters
PlainLen(body) ==
  IF body.type = "TEXT" THEN (IF body.text = "" THEN 0 ELSE 5) ELSE 40

\* fullMessage.length
EnvLen(env) == (IF env.form = "anon" THEN 32 ELSE 0) + 24 + 16 + PlainLen(env.body)

\* nacl.box.open(ciphertext, nonce, peerKey, secretKey) of the bytes parsed
\* in the form `form`
BoxOpen(env, form, peerKey) ==
  /\ env.form = form
  /\ env.to = MyKey
  /\ env.from = peerKey

----------------------------------------------------------------------------
(* The contact list: what each handler computes from the list it read *)

\* a variant without the limit on the name
validateHandshakeDataAnyName(data) ==
  /\ data.id \in HexIds
  /\ data.key \in HexKeys
  /\ ~(Truthy(data.avatar) /\ data.avatar = "HUGE")

validateHandshakeData(data) ==
  /\ data.id \in HexIds
  /\ data.key \in HexKeys
  /\ ~(Truthy(data.name) /\ data.name = "LONG")
  /\ ~(Truthy(data.avatar) /\ data.avatar = "HUGE")

\* writes the picture to a local file and returns its uri
saveAvatarLocally(id, base64Data) ==
  IF base64Data = "HUGE" THEN "null" ELSE "file:a"

startsWithData(avatar) == avatar \in {"data:a", "HUGE"}

\* a variant that takes the key of the handshake as the contact's key
addContactFromHandshakeReplacing(list, data) ==
  LET existingIndex == findIndex(list, data.id)
  IN  IF existingIndex # 0
      THEN [list EXCEPT ![existingIndex] = [@ EXCEPT !.key = data.key, !.name = data.name]]
      ELSE Append(list, Contact(data.id, data.key, data.name, "null"))

\* the list addContactFromHandshake writes for validated data
addContactFromHandshake(list, data) ==
  LET existingIndex == findIndex(list, data.id)
      finalAvatar == IF Truthy(data.avatar) /\ startsWithData(data.avatar)
                     THEN saveAvatarLocally(data.id, data.avatar)
                     ELSE data.avatar
  IN  IF existingIndex # 0
      THEN IF list[existingIndex].key # data.key
           THEN [list EXCEPT ![existingIndex] =
                   [@ EXCEPT !.securityWarning = TRUE, !.pendingNewKey = data.key]]
           ELSE [list EXCEPT ![existingIndex] =
                   [@ EXCEPT !.name = data.name,
                             !.avatar = IF Truthy(finalAvatar) THEN finalAvatar ELSE @]]
      ELSE Append(list, Contact(data.id, data.key, data.name,
                                IF Truthy(finalAvatar) THEN finalAvatar ELSE "null"))

\* addContactLocally writes only for a new id or a key mismatch
addContactLocallyWrites(list, newContact) ==
  LET k == findIndex(list, newContact.id)
  IN  k = 0 \/ list[k].key # newContact.key

addContactLocally(list, newContact) ==
  LET local == IF Truthy(newContact.avatar) /\ startsWithData(newContact.avatar)
               THEN saveAvatarLocally(newContact.id, newContact.avatar)
               ELSE "null"
      finalAvatar == IF Truthy(local) THEN local ELSE newContact.avatar
  IN  IF findIndex(list, newContact.id) # 0
      THEN [k \in 1..Len(list) |->
              IF list[k].id = newContact.id
              THEN [list[k] EXCEPT !.securityWarning = TRUE,
                                   !.pendingNewKey = newContact.key]
              ELSE list[k]]
      ELSE Append(list, Contact(newContact.id, newContact.key,
                                IF Truthy(newContact.name) THEN newContact.name
                                ELSE "Contact",
                                IF Truthy(finalAvatar) THEN finalAvatar ELSE "null"))

\* the avatar updateContactInfo stores
profileAvatar(contactId, data) ==
  IF Truthy(data.avatar) /\ startsWithData(data.avatar)
  THEN LET local == saveAvatarLocally(contactId, data.avatar)
       IN  IF Truthy(local) THEN local ELSE data.avatar
  ELSE data.avatar

updateContactInfo(list, contactId, data) ==
  [k \in 1..Len(list) |->
     IF /\ list[k].id = contactId
        /\ (list[k].name # data.name \/ list[k].avatar # profileAvatar(contactId, data))
     THEN [list[k] EXCEPT !.name = data.name,
                          !.avatar = profileAvatar(contactId, data)]
     ELSE list[k]]

\* list.filter(c => c.id !== contactId)
deleteContactLocally(list, contactId) ==
  LET Keep(c) == c.id # contactId IN SelectSeq(list, Keep)

toggleVerified(list, contactId, isVerified) ==
  [k \in 1..Len(list) |->
     IF list[k].id = contactId THEN [list[k] EXCEPT !.isVerified = ~isVerified]
     ELSE list[k]]

approveNewKey(list, contactId) ==
  [k \in 1..Len(list) |->
     IF list[k].id = contactId
     THEN [list[k] EXCEPT !.key = list[k].pendingNewKey, !.securityWarning = FALSE,
                          !.pendingNewKey = "", !.isVerified = FALSE]
     ELSE list[k]]

saveAlias(list, contactId, alias) ==
  [k \in 1..Len(list) |->
     IF list[k].id = contactId THEN [list[k] EXCEPT !.alias = alias]
     ELSE list[k]]

toggleBlock(list, contactId) ==
  [k \in 1..Len(list) |->
     IF list[k].id = contactId THEN [list[k] EXCEPT !.isBlocked = ~list[k].isBlocked]
     ELSE list[k]]

----------------------------------------------------------------------------
(* Histories *)

\* dlv is bookkeeping of the model, no field of the stored message: the
\* delivery id of the relay item the message was made from (0: made locally)
Message(id, text, timestamp, isMe, status, dlv) ==
  [id |-> id, text |-> text, timestamp |-> timestamp, isMe |-> isMe,
   status |-> status, dlv |-> dlv]

\* history.map(m => m.isMe && m.status !== 'read' ? {...m, status: 'read'} : m)
markRead(history) ==
  [k \in 1..Len(history) |->
     IF history[k].isMe /\ history[k].status # "read"
     THEN [history[k] EXCEPT !.status = "read"]
     ELSE history[k]]

\* a variant that keeps a message up to and including its expiry
sweepInclusive(history, now, timerSeconds) ==
  LET Keep(m) == (now - m.timestamp) <= timerSeconds * 1000
  IN  SelectSeq(history, Keep)

\* history.filter(m => (now - m.timestamp) < expiryMs)
sweep(history, now, timerSeconds) ==
  LET Keep(m) == (now - m.timestamp) < timerSeconds * 1000
  IN  SelectSeq(history, Keep)

----------------------------------------------------------------------------
(* Opening an envelope: lines 106-156 of checkGlobalMessages *)

\* the first contact of the snapshot whose key opens the known-sender form
\* (0: none).  A record without a key makes match() throw: it is skipped
Opens(snap, env, k) ==
  /\ ~snap[k].isSelf
  /\ snap[k].key # ""
  /\ BoxOpen(env, "known", fromHex(snap[k].key))

\* a variant that attributes to the first contact that is not this user
trialDecryptFirst(snap, env) ==
  IF \E k \in 1..Len(snap) : ~snap[k].isSelf /\ env.form = "known"
  THEN CHOOSE k \in 1..Len(snap) :
         /\ ~snap[k].isSelf
         /\ \A j \in 1..(k - 1) : snap[j].isSelf
  ELSE 0

trialDecrypt(snap, env) ==
  IF \E k \in 1..Len(snap) : Opens(snap, env, k)
  THEN CHOOSE k \in 1..Len(snap) :
         /\ Opens(snap, env, k)
         /\ \A j \in 1..(k - 1) : ~Opens(snap, env, j)
  ELSE 0

\* a variant that does not compare the key the payload states
anonymousHandshakeAnyKey(env) ==
  /\ EnvLen(env) > 32 + 24
  /\ BoxOpen(env, "anon", env.claimed)
  /\ env.body.type = "ACCEPT"
  /\ env.body.json

\* the check of the anonymous form: it opens under the prefixed key, it is an
\* ACCEPT whose JSON parses, and the key it states is the prefixed key
anonymousHandshake(env) ==
  /\ EnvLen(env) > 32 + 24
  /\ BoxOpen(env, "anon", env.claimed)
  /\ env.body.type = "ACCEPT"
  /\ env.body.json
  /\ Truthy(env.body.key)
  /\ toLowerCase(env.body.key) = toLowerCase(toHex(env.claimed))

\* decrypted is truthy: a non-empty plaintext was obtained
knownPlain(snap, env) ==
  trialDecrypt(snap, env) # 0 /\ PlainLen(env.body) > 0

decryptedOk(snap, env) == knownPlain(snap, env) \/ anonymousHandshake(env)

senderOf(snap, env) ==
  IF trialDecrypt(snap, env) # 0 THEN snap[trialDecrypt(snap, env)] ELSE NoContact

\* the PROFILE_UPDATE schema check
validProfile(body) ==
  /\ body.json
  /\ body.name \notin {"undef", "null"}
  /\ body.name # "LONG"
  /\ ~(Truthy(body.avatar) /\ body.avatar = "HUGE")

----------------------------------------------------------------------------
(* State *)

VARIABLES
  contacts,      \* the record my_contacts_list_v1: None or Some(list)
  history,       \* the records history_<id>: None or Some(list), newest first
  lastRead,      \* the ids with a last_read_<id> record
  timer,         \* ephemeral_timer_<id> in seconds, 0 when not set
  now,           \* Date.now(), in milliseconds
  ticks,         \* ticks of the clock so far
  queue,         \* the relay's queue for this user: items [id, content]
  nextDelivery,  \* the next delivery id the relay assigns
  acks,          \* the /ack requests sent: each the list of its messageIds
  poll,          \* the invocations of checkGlobalMessages in flight
  pollCount,     \* invocations started so far
  nextMsg,       \* a counter that makes generated message ids fresh
  ui,            \* the contact handler the user started
  screen,        \* the state of the contact-details screen
  userOps,       \* handlers the user started so far
  chat,          \* the handler of the chat screen in flight
  sweeper,       \* cleanExpiredEphemeralMessages in flight
  codec,         \* one text on its way from send to the recipient's poll
  disk,          \* AsyncStorage: for every key the raw value, None or Some(raw)
  secret,        \* SecureStore my_permanent_secret_key_v1: None or Some(key)
  cachedEncKey,  \* the module variable cachedEncKey of SecureStorage
  io,            \* the last call of the storage engine and what it returned
  put,           \* for every key the value last stored by secureSet, if any
  segments,      \* the screen group the router shows: "(tabs)" or "onboarding"
  setup,         \* setupIdentity of the home screen in flight
  failedStore,   \* SecureStore ghost_lock_failed_attempts: None or Some(count)
  lock,          \* the LockScreen component: its state and handlers in flight
  sinceFail,     \* seconds since the last failed attempt was recorded
  pinRecord,     \* SecureStore my_app_lock_pin_v1: None or Some([hash, salt])
  safety,        \* the safety numbers the two contact-details screens show
  authCache,     \* the cached identity of AuthHelper: None or Some(secret key)
  loader,        \* loadIdentity of AuthHelper in flight
  wipe,          \* performFinalWipe or the wipe of checkAutoDelete in flight
  del,           \* deleteContact of the contacts screen in flight
  auth,          \* one authFetch call: what it sent and what it returned
  root           \* RootLayoutContent: its state, checkPin in flight, the app state

vars == <<contacts, history, lastRead, timer, now, ticks, queue, nextDelivery,
          acks, poll, pollCount, nextMsg, ui, screen, userOps, chat, sweeper,
          codec, disk, secret, cachedEncKey, io, put,
         segments, setup, failedStore, lock, sinceFail, pinRecord,
         safety, authCache, loader, wipe, del, auth, root>>

storeVars == <<contacts, history, lastRead>>
relayVars == <<queue, nextDelivery, acks>>
clockVars == <<timer, now, ticks>>
userVars == <<ui, screen, userOps, chat>>
\* the state outside the contact list, the histories and the relay
storageVars == <<disk, secret, cachedEncKey, io, put>>
identityVars == <<segments, setup>>
lockVars == <<failedStore, lock, sinceFail, pinRecord>>
appVars == <<identityVars, lockVars>>
\* the state of the screens and helpers outside the handlers above
extVars == <<safety, authCache, loader, wipe, del, auth, root>>
deviceVars == <<codec, storageVars, appVars, extVars>>
\* the contact list, the histories, the relay and their handlers
coreVars == <<storeVars, clockVars, relayVars, poll, pollCount, nextMsg, userVars, sweeper,
              extVars>>

\* the two timers' invocations that can overlap
Polls == {1, 2}

IdlePoll ==
  [pc |-> "idle", batch |-> <<>>, i |-> 0, snap |-> <<>>, processedIds |-> <<>>,
   op |-> "", data |-> NoBody, sender |-> NoContact, local |-> <<>>, hlocal |-> <<>>]

IdleUi == [pc |-> "idle", op |-> "", id |-> "", arg |-> NoContact, local |-> <<>>]

NoScreen == [id |-> "", isVerified |-> FALSE, securityWarning |-> FALSE,
             pendingNewKey |-> ""]

NoMessage == Message(0, "", 0, FALSE, "", 0)

IdleChat == [pc |-> "idle", op |-> "", id |-> "", msg |-> NoMessage, hlocal |-> <<>>]

IdleSweeper == [pc |-> "idle", now |-> 0, list |-> <<>>, k |-> 0, hlocal |-> <<>>]

IdleCodec == [pc |-> "idle", plain |-> <<>>, content |-> <<>>, got |-> <<>>]

\* the keys of AsyncStorage the model follows
StoreKeys == {"k1", "k2"}

NoCall == [op |-> "", key |-> "", result |-> <<>>, threw |-> FALSE, warned |-> FALSE]

\* an installation with an identity and nothing stored
IdleStorage ==
  /\ disk = [k \in StoreKeys |-> None]
  /\ secret = Some("s1")
  /\ cachedEncKey = None
  /\ io = NoCall
  /\ put = [k \in StoreKeys |-> None]

\* no contact-details screen has computed a safety number
NoSafety == [pc |-> "idle", key1 |-> <<>>, key2 |-> <<>>, mine |-> <<>>, theirs |-> <<>>]

\* loadIdentity is not running
IdleLoader == [pc |-> "idle", stored |-> <<>>]

\* no wipe was started
NoWipe == [pc |-> "idle", kind |-> "", outcome |-> ""]

\* no contact is being deleted on the contacts screen
NoDelete == [pc |-> "idle", id |-> "", outcome |-> "", screen |-> "", sent |-> 0]

\* authFetch was not called
NoFetch ==
  [pc |-> "idle", path |-> "", sent |-> 0, registered |-> 0, success |-> FALSE,
   response |-> "", returned |-> "", calls |-> 0]

\* RootLayoutContent is not rendered yet; the states are the useState defaults
NoRoot ==
  [mounted |-> FALSE, isLocked |-> FALSE, hasPin |-> FALSE, checkPin |-> "idle",
   storedValue |-> FALSE, appState |-> "active", unlocked |-> FALSE]

\* no screen or helper outside the handlers above has acted
IdleExt ==
  /\ safety = NoSafety
  /\ authCache = None
  /\ loader = IdleLoader
  /\ wipe = NoWipe
  /\ del = NoDelete
  /\ auth = NoFetch
  /\ root = NoRoot

\* setupIdentity is not running
IdleSetup == [pc |-> "idle", stored |-> <<>>]

\* no LockScreen is mounted
Unmounted ==
  [mounted |-> FALSE, failedAttempts |-> 0, cooldownRemaining |-> 0,
   load |-> "idle", persistedFailed |-> 0,
   verify |-> "idle", valid |-> FALSE, closure |-> 0,
   enteredInput |-> "", storedValue |-> <<>>, biometrics |-> "idle", onUnlock |-> ""]

\* the home screen is shown, no lock is mounted and no attempt has failed
IdleApp ==
  /\ segments = "(tabs)"
  /\ setup = IdleSetup
  /\ failedStore = None
  /\ lock = Unmounted
  /\ sinceFail = 300
  /\ pinRecord = None

InitDevice ==
  /\ codec = IdleCodec
  /\ IdleStorage
  /\ IdleApp

\* history ? JSON.parse(historyJson) : []
listOf(o) == IF Has(o) THEN Val(o) ELSE <<>>

----------------------------------------------------------------------------
(* The relay: accepts a blob for this user, returns the queued blobs on     *)
(* /check, drops the acknowledged ones on /ack                              *)

RelayDeliver(env) ==
  /\ nextDelivery <= MaxDeliveries
  /\ queue' = Append(queue, [id |-> nextDelivery, content |-> env])
  /\ nextDelivery' = nextDelivery + 1
  /\ UNCHANGED <<deviceVars, storeVars, clockVars, acks, poll, pollCount, nextMsg, userVars, sweeper>>

RelayAck(q, messageIds) ==
  LET Keep(m) == \A k \in 1..Len(messageIds) : messageIds[k] # m.id
  IN  SelectSeq(q, Keep)

----------------------------------------------------------------------------
(* checkGlobalMessages *)

\* lines 92-104: fetch the queued items and read the contact list once
PollFetch(p) ==
  /\ poll[p].pc = "idle"
  /\ pollCount < MaxPolls
  /\ Len(queue) # 0
  /\ poll' = [poll EXCEPT ![p] = [IdlePoll EXCEPT !.pc = "loop", !.batch = queue,
                                                  !.snap = listOf(contacts)]]
  /\ pollCount' = pollCount + 1
  /\ UNCHANGED <<deviceVars, storeVars, clockVars, relayVars, nextMsg, userVars, sweeper>>

isSignal(body) == body.type \notin {"TEXT", "MEDIA"}

\* a variant that stores a signal of an unrecognised type as a message
routeStoring(snap, env) ==
  LET body == env.body
      sender == senderOf(snap, env)
  IN  IF ~decryptedOk(snap, env) THEN ""
      ELSE IF isSignal(body)
      THEN IF body.type = "ACCEPT"
           THEN IF body.json /\ validateHandshakeData(body) THEN "ACCEPT" ELSE ""
           ELSE IF sender = NoContact THEN ""
           ELSE IF body.type = "PROFILE_UPDATE"
                THEN IF /\ validProfile(body)
                        /\ Has(contacts)
                        /\ updateContactInfo(Val(contacts), sender.id, body) # Val(contacts)
                     THEN "PROFILE_UPDATE" ELSE ""
           ELSE IF body.type = "DELETE"
                THEN IF Has(contacts) THEN "DELETE" ELSE ""
           ELSE IF body.type = "SCREENSHOT" THEN "SCREENSHOT"
           ELSE IF body.type = "READ"
                THEN IF /\ Has(history[sender.id])
                        /\ markRead(Val(history[sender.id])) # Val(history[sender.id])
                     THEN "READ" ELSE ""
           ELSE "STORE"
      ELSE IF sender = NoContact THEN ""
      ELSE IF sender.isBlocked THEN ""
      ELSE IF body.type = "MEDIA" /\ ~body.json THEN ""
      ELSE "STORE"

\* what the loop body does with one item, given the storage it reads: the
\* name of the sub-handler that goes on to write, "" when nothing is written
route(snap, env) ==
  LET body == env.body
      sender == senderOf(snap, env)
  IN  IF ~decryptedOk(snap, env) THEN ""
      ELSE IF isSignal(body)
      THEN IF body.type = "ACCEPT"
           THEN IF body.json /\ validateHandshakeData(body) THEN "ACCEPT" ELSE ""
           ELSE IF sender = NoContact THEN ""
           ELSE IF body.type = "PROFILE_UPDATE"
                THEN IF /\ validProfile(body)
                        /\ Has(contacts)
                        /\ updateContactInfo(Val(contacts), sender.id, body) # Val(contacts)
                     THEN "PROFILE_UPDATE" ELSE ""
           ELSE IF body.type = "DELETE"
                THEN IF Has(contacts) THEN "DELETE" ELSE ""
           ELSE IF body.type = "SCREENSHOT" THEN "SCREENSHOT"
           ELSE IF body.type = "READ"
                THEN IF /\ Has(history[sender.id])
                        /\ markRead(Val(history[sender.id])) # Val(history[sender.id])
                     THEN "READ" ELSE ""
           ELSE ""
      ELSE IF sender = NoContact THEN ""
      ELSE IF sender.isBlocked THEN ""
      ELSE IF body.type = "MEDIA" /\ ~body.json THEN ""
      ELSE "STORE"

\* line 160: if (msg.id) processedIds.push(msg.id), for a decrypted item
pushProcessed(processedIds, snap, m) ==
  IF decryptedOk(snap, m.content) /\ m.id # 0
  THEN Append(processedIds, m.id)
  ELSE processedIds

\* lines 106-289 for the next item, up to the first write of its sub-handler.
\* Content that is not base64 makes decodeBase64 throw: the catch of line 304
\* ends the invocation
PollDispatch(p) ==
  /\ poll[p].pc = "loop"
  /\ poll[p].i < Len(poll[p].batch)
  /\ LET P == poll[p]
         m == P.batch[P.i + 1]
         op == route(P.snap, m.content)
         sender == senderOf(P.snap, m.content)
     IN  IF m.content.form = "garbage"
         THEN poll' = [poll EXCEPT ![p] = IdlePoll]
         ELSE poll' = [poll EXCEPT ![p] =
                [P EXCEPT !.i = P.i + 1,
                          !.processedIds = pushProcessed(P.processedIds, P.snap, m),
                          !.pc = IF op = "" THEN "loop" ELSE "write",
                          !.op = op,
                          !.data = IF op = "" THEN NoBody ELSE m.content.body,
                          !.sender = sender,
                          !.local = IF op \in {"ACCEPT", "PROFILE_UPDATE", "DELETE"}
                                    THEN listOf(contacts) ELSE <<>>,
                          !.hlocal = IF op \in {"SCREENSHOT", "READ", "STORE"}
                                     THEN listOf(history[sender.id]) ELSE <<>>]]
  /\ UNCHANGED <<deviceVars, storeVars, clockVars, relayVars, pollCount, nextMsg, userVars, sweeper>>

\* a variant that stores the inbound message as one of this user's
inboundMessageMine(body, dlv) ==
  Message(nextMsg, IF body.type = "MEDIA" THEN "MEDIA_REF" ELSE body.text,
          now, TRUE, "", dlv)

\* the message stored for a decrypted chat payload (lines 279-287)
inboundMessage(body, dlv) ==
  Message(nextMsg, IF body.type = "MEDIA" THEN "MEDIA_REF" ELSE body.text,
          now, FALSE, "", dlv)

\* the synthetic message of a SCREENSHOT signal (lines 204-210)
screenshotMessage(dlv) == Message(nextMsg, "screenshot", now, FALSE, "", dlv)

\* the secureSet (and secureClear) that ends the sub-handler
PollWrite(p) ==
  /\ poll[p].pc = "write"
  /\ LET P == poll[p]
         id == P.sender.id
         dlv == P.batch[P.i].id
     IN  /\ contacts' =
              IF P.op = "ACCEPT" THEN Some(addContactFromHandshake(P.local, P.data))
              ELSE IF P.op = "PROFILE_UPDATE"
                   THEN Some(updateContactInfo(P.local, id, P.data))
              ELSE IF P.op = "DELETE" THEN Some(deleteContactLocally(P.local, id))
              ELSE contacts
         /\ history' =
              IF P.op = "DELETE" THEN [history EXCEPT ![id] = None]
              ELSE IF P.op = "SCREENSHOT"
                   THEN [history EXCEPT ![id] = Some(<<screenshotMessage(dlv)>> \o P.hlocal)]
              ELSE IF P.op = "READ"
                   THEN [history EXCEPT ![id] = Some(markRead(P.hlocal))]
              ELSE IF P.op = "STORE"
                   THEN [history EXCEPT ![id] =
                           Some(<<inboundMessage(P.data, dlv)>> \o P.hlocal)]
              ELSE history
         /\ lastRead' = IF P.op = "DELETE" THEN lastRead \ {id} ELSE lastRead
         /\ nextMsg' = IF P.op \in {"SCREENSHOT", "STORE"} THEN nextMsg + 1 ELSE nextMsg
         /\ poll' = [poll EXCEPT ![p] = [P EXCEPT !.pc = "loop"]]
  /\ UNCHANGED <<deviceVars, clockVars, relayVars, pollCount, userVars, sweeper>>

\* lines 292-303: one /ack for the batch when something was processed; the
\* request may fail, and then the relay keeps the items
PollAck(p) ==
  /\ poll[p].pc = "loop"
  /\ poll[p].i = Len(poll[p].batch)
  /\ IF Len(poll[p].processedIds) > 0
     THEN /\ acks' = Append(acks, poll[p].processedIds)
          /\ \E ok \in BOOLEAN :
               queue' = IF ok THEN RelayAck(queue, poll[p].processedIds) ELSE queue
     ELSE UNCHANGED <<acks, queue>>
  /\ poll' = [poll EXCEPT ![p] = IdlePoll]
  /\ UNCHANGED <<deviceVars, storeVars, clockVars, nextDelivery, pollCount, nextMsg, userVars, sweeper>>

----------------------------------------------------------------------------
(* The dispatcher under two overlapping polls *)

Alice == Contact("ID1", "aa", "n1", "null")
Bob == Contact("ID2", "bb", "n2", "null")

\* what senders put on the relay in this specification
PollEnvelopes ==
  { Seal(Text("hello"), "aa"),
    Seal(Text("hello"), "bb"),
    Seal(Text("hello"), "dd"),
    Seal(Text(""), "aa"),
    Seal(Signal("READ"), "aa"),
    Seal(Signal("SCREENSHOT"), "aa"),
    Seal(Media(TRUE), "aa"),
    Seal(Media(FALSE), "aa"),
    Garbage }

\* the client after mount: nothing fetched, no handler in flight
InitClient ==
  /\ IdleExt
  /\ lastRead = {}
  /\ now = 1000
  /\ ticks = 0
  /\ queue = <<>>
  /\ nextDelivery = 1
  /\ acks = <<>>
  /\ poll = [p \in Polls |-> IdlePoll]
  /\ pollCount = 0
  /\ nextMsg = 1
  /\ ui = IdleUi
  /\ screen = NoScreen
  /\ userOps = 0
  /\ chat = IdleChat
  /\ sweeper = IdleSweeper

InitStore ==
  /\ InitDevice
  /\ InitClient

InitPoll ==
  /\ InitStore
  /\ timer = [id \in Ids |-> 0]
  /\ contacts = Some(<<Alice, [Bob EXCEPT !.isBlocked = TRUE]>>)
  /\ history = [id \in Ids |-> IF id = "ID1"
                                THEN Some(<<Message(0, "mine", 0, TRUE, "sent", 0)>>)
                                ELSE None]

NextPoll ==
  \/ \E env \in PollEnvelopes : RelayDeliver(env)
  \/ \E p \in Polls : PollFetch(p)
  \/ \E p \in Polls : PollDispatch(p)
  \/ \E p \in Polls : PollWrite(p)
  \/ \E p \in Polls : PollAck(p)

SpecPoll == InitPoll /\ [][NextPoll]_vars

----------------------------------------------------------------------------
(* The user's handlers on the contact list *)

\* what loadContact puts in the screen's state for the record it found
loaded(id, list) ==
  LET found == list[findIndex(list, id)]
  IN  [id |-> id, isVerified |-> found.isVerified,
       securityWarning |-> found.securityWarning,
       pendingNewKey |-> found.pendingNewKey]

\* the contact-details screen is opened for a contact of the list: loadContact
UiOpen(id) ==
  /\ ui.pc = "idle"
  /\ Has(contacts)
  /\ findIndex(Val(contacts), id) # 0
  /\ screen' = loaded(id, Val(contacts))
  /\ UNCHANGED <<deviceVars, storeVars, clockVars, relayVars, poll, pollCount, nextMsg, ui, userOps,
                 chat, sweeper>>

\* toggleVerified, approveNewKey (its button shows while the loaded record
\* has securityWarning), saveAlias, toggleBlock: the secureGet
UiBegin(op, alias) ==
  /\ ui.pc = "idle"
  /\ userOps < MaxUserOps
  /\ screen.id # ""
  /\ op = "approveNewKey" => screen.securityWarning
  /\ Has(contacts)
  /\ ui' = [pc |-> "write", op |-> op, id |-> screen.id,
            arg |-> [NoContact EXCEPT !.alias = alias], local |-> Val(contacts)]
  /\ userOps' = userOps + 1
  /\ UNCHANGED <<deviceVars, storeVars, clockVars, relayVars, poll, pollCount, nextMsg, screen,
                 chat, sweeper>>

\* acceptRequest on the contacts screen: addContactLocally(req.from), which
\* reads the list and goes on to write for a new id or a key mismatch
UiAccept(newContact) ==
  /\ ui.pc = "idle"
  /\ userOps < MaxUserOps
  /\ ui' = IF addContactLocallyWrites(listOf(contacts), newContact)
           THEN [pc |-> "write", op |-> "addContactLocally", id |-> newContact.id,
                 arg |-> newContact, local |-> listOf(contacts)]
           ELSE ui
  /\ userOps' = userOps + 1
  /\ UNCHANGED <<deviceVars, storeVars, clockVars, relayVars, poll, pollCount, nextMsg, screen,
                 chat, sweeper>>

\* the list the handler writes, from the list it read
uiResult(u, isVerified) ==
  IF u.op = "toggleVerified" THEN toggleVerified(u.local, u.id, isVerified)
  ELSE IF u.op = "approveNewKey" THEN approveNewKey(u.local, u.id)
  ELSE IF u.op = "saveAlias" THEN saveAlias(u.local, u.id, u.arg.alias)
  ELSE IF u.op = "toggleBlock" THEN toggleBlock(u.local, u.id)
  ELSE addContactLocally(u.local, u.arg)

\* the secureSet of the handler; saveAlias and approveNewKey then call
\* loadContact, toggleVerified flips the screen's isVerified
UiWrite ==
  /\ ui.pc = "write"
  /\ contacts' = Some(uiResult(ui, screen.isVerified))
  /\ screen' = IF ui.op = "toggleVerified"
               THEN [screen EXCEPT !.isVerified = ~screen.isVerified]
               ELSE screen
  /\ ui' = IF ui.op \in {"saveAlias", "approveNewKey"}
           THEN [ui EXCEPT !.pc = "reload"]
           ELSE [ui EXCEPT !.pc = "idle"]
  /\ UNCHANGED <<deviceVars, history, lastRead, clockVars, relayVars, poll, pollCount, nextMsg,
                 userOps, chat, sweeper>>

\* loadContact after the write
UiReload ==
  /\ ui.pc = "reload"
  /\ screen' = IF Has(contacts) /\ findIndex(Val(contacts), screen.id) # 0
               THEN loaded(screen.id, Val(contacts))
               ELSE screen
  /\ ui' = [ui EXCEPT !.pc = "idle"]
  /\ UNCHANGED <<deviceVars, storeVars, clockVars, relayVars, poll, pollCount, nextMsg, userOps,
                 chat, sweeper>>

----------------------------------------------------------------------------
(* The trust store under one poll and the user's handlers *)

TrustEnvelopes ==
  { SealAnonymous(Accept("ID3", "cc", "n3", TRUE), "cc", "cc"),
    SealAnonymous(Accept("ID2", "CC", "n3", TRUE), "cc", "cc"),
    SealAnonymous(Accept("ID2", "dd", "n3", TRUE), "cc", "cc"),
    SealAnonymous(Accept("ID2", "cc", "n3", TRUE), "dd", "cc"),
    Seal(ProfileUpdate("n9", "undef", TRUE), "aa"),
    Seal(Signal("DELETE"), "bb") }

\* the friend requests the user accepts
TrustRequests == { Contact("ID1", "dd", "n1", "null") }

UserOps == {"toggleVerified", "approveNewKey", "saveAlias", "toggleBlock"}

\* Alice after a handshake with another key was staged for her id
AliceWarned ==
  [Alice EXCEPT !.isVerified = TRUE, !.securityWarning = TRUE, !.pendingNewKey = "dd"]

InitTrust ==
  /\ InitStore
  /\ timer = [id \in Ids |-> 0]
  /\ contacts \in {Some(<<Alice, Bob>>), Some(<<AliceWarned, Bob>>)}
  /\ history = [id \in Ids |-> None]

NextTrust ==
  \/ \E env \in TrustEnvelopes : RelayDeliver(env)
  \/ PollFetch(1)
  \/ PollDispatch(1)
  \/ PollWrite(1)
  \/ PollAck(1)
  \/ UiOpen("ID1")
  \/ \E op \in UserOps : UiBegin(op, IF op = "saveAlias" THEN "al" ELSE "")
  \/ \E c \in TrustRequests : UiAccept(c)
  \/ UiWrite
  \/ UiReload

SpecTrust == InitTrust /\ [][NextTrust]_vars

----------------------------------------------------------------------------
(* The handshakes a poll receives, with no user at the screen *)

HandshakeEnvelopes ==
  TrustEnvelopes \cup
  { SealAnonymous(Accept("ID2", "cc", "LONG", TRUE), "cc", "cc"),
    SealAnonymous(Accept("bad", "cc", "n3", TRUE), "cc", "cc"),
    SealAnonymous(Accept("ID3", "cc", "n3", FALSE), "cc", "cc"),
    SealAnonymous(Signal("DELETE"), "bb", "bb"),
    Seal(Accept("ID2", "dd", "n2", TRUE), "aa") }

NextHandshake ==
  \/ \E env \in HandshakeEnvelopes : RelayDeliver(env)
  \/ \E p \in Polls : PollFetch(p)
  \/ \E p \in Polls : PollDispatch(p)
  \/ \E p \in Polls : PollWrite(p)
  \/ \E p \in Polls : PollAck(p)

SpecHandshake == InitTrust /\ [][NextHandshake]_vars

----------------------------------------------------------------------------
(* The chat screen of one conversation and the global sweep *)

\* the clock advances by one second
Tick ==
  /\ ticks < MaxTicks
  /\ now' = now + 1000
  /\ ticks' = ticks + 1
  /\ UNCHANGED <<deviceVars, storeVars, timer, relayVars, poll, pollCount, nextMsg, userVars, sweeper>>

\* the message send() stores once the relay accepted it (chat.tsx 371-379)
sentMessage == Message(nextMsg, "mine", now, TRUE, "sent", 0)

\* send -> saveMessageToStorage: the secureGet and the duplicate check
ChatSend(id) ==
  /\ chat.pc = "idle"
  /\ userOps < MaxUserOps
  /\ chat' = IF \E k \in 1..Len(listOf(history[id])) :
                   listOf(history[id])[k].id = sentMessage.id
             THEN chat
             ELSE [pc |-> "write", op |-> "saveMessageToStorage", id |-> id,
                   msg |-> sentMessage, hlocal |-> listOf(history[id])]
  /\ nextMsg' = nextMsg + 1
  /\ userOps' = userOps + 1
  /\ UNCHANGED <<deviceVars, storeVars, clockVars, relayVars, poll, pollCount, ui, screen, sweeper>>

\* cleanExpiredMessages of the 2 s interval: the secureGet and the filter; it
\* goes on to write when a message expired
ChatClean(id) ==
  /\ chat.pc = "idle"
  /\ timer[id] # 0
  /\ Has(history[id])
  /\ Len(sweep(Val(history[id]), now, timer[id])) < Len(Val(history[id]))
  /\ chat' = [pc |-> "write", op |-> "cleanExpiredMessages", id |-> id,
              msg |-> NoMessage, hlocal |-> sweep(Val(history[id]), now, timer[id])]
  /\ UNCHANGED <<deviceVars, storeVars, clockVars, relayVars, poll, pollCount, nextMsg, ui, screen,
                 userOps, sweeper>>

\* the secureSet of either handler; saveMessageToStorage then calls markAsRead
ChatWrite ==
  /\ chat.pc = "write"
  /\ history' = [history EXCEPT ![chat.id] =
                   IF chat.op = "saveMessageToStorage"
                   THEN Some(<<chat.msg>> \o chat.hlocal)
                   ELSE Some(chat.hlocal)]
  /\ lastRead' = IF chat.op = "saveMessageToStorage"
                 THEN lastRead \cup {chat.id} ELSE lastRead
  /\ chat' = IdleChat
  /\ UNCHANGED <<deviceVars, contacts, clockVars, relayVars, poll, pollCount, nextMsg, ui, screen,
                 userOps, sweeper>>

\* cleanExpiredEphemeralMessages, lines 57-60: the contact list and the time
SweepStart ==
  /\ sweeper.pc = "idle"
  /\ Has(contacts)
  /\ sweeper' = [IdleSweeper EXCEPT !.pc = "loop", !.now = now, !.list = Val(contacts)]
  /\ UNCHANGED <<deviceVars, storeVars, clockVars, relayVars, poll, pollCount, nextMsg, userVars>>

\* lines 62-77 for the next contact: its timer, its history and the filter
SweepStep ==
  /\ sweeper.pc = "loop"
  /\ sweeper' =
       IF sweeper.k = Len(sweeper.list) THEN IdleSweeper
       ELSE LET id == sweeper.list[sweeper.k + 1].id
                filtered == sweep(listOf(history[id]), sweeper.now, timer[id])
            IN  IF /\ timer[id] > 0
                   /\ Has(history[id])
                   /\ Len(filtered) < Len(Val(history[id]))
                THEN [sweeper EXCEPT !.k = sweeper.k + 1, !.pc = "write",
                                     !.hlocal = filtered]
                ELSE [sweeper EXCEPT !.k = sweeper.k + 1]
  /\ UNCHANGED <<deviceVars, storeVars, clockVars, relayVars, poll, pollCount, nextMsg, userVars>>

\* lines 78-82: secureClear when nothing is left, secureSet otherwise
SweepWrite ==
  /\ sweeper.pc = "write"
  /\ history' = [history EXCEPT ![sweeper.list[sweeper.k].id] =
                   IF Len(sweeper.hlocal) = 0 THEN None ELSE Some(sweeper.hlocal)]
  /\ sweeper' = [sweeper EXCEPT !.pc = "loop", !.hlocal = <<>>]
  /\ UNCHANGED <<deviceVars, contacts, lastRead, clockVars, relayVars, poll, pollCount, nextMsg,
                 userVars>>

----------------------------------------------------------------------------
(* One conversation's history under the poll, the chat screen and the sweep *)

HistoryEnvelopes ==
  { Seal(Text("hello"), "aa"),
    Seal(Signal("READ"), "aa"),
    Seal(Signal("SCREENSHOT"), "aa") }

\* Alice's conversation disappears after two seconds
InitHistory ==
  /\ InitStore
  /\ timer = [id \in Ids |-> IF id = "ID1" THEN 2 ELSE 0]
  /\ contacts = Some(<<Alice>>)
  /\ history = [id \in Ids |-> IF id = "ID1"
                                THEN Some(<<Message(0, "mine", 1000, TRUE, "sent", 0)>>)
                                ELSE None]

NextHistory ==
  \/ \E env \in HistoryEnvelopes : RelayDeliver(env)
  \/ PollFetch(1)
  \/ PollDispatch(1)
  \/ PollWrite(1)
  \/ PollAck(1)
  \/ Tick
  \/ ChatSend("ID1")
  \/ ChatClean("ID1")
  \/ ChatWrite
  \/ SweepStart
  \/ SweepStep
  \/ SweepWrite

SpecHistory == InitHistory /\ [][NextHistory]_vars

----------------------------------------------------------------------------
(* The steps of the handlers, recognised by what they change *)

\* invocation p examines its next item
PollDispatched(p) ==
  /\ poll[p].pc = "loop"
  /\ poll[p].i < Len(poll[p].batch)
  /\ poll'[p] # poll[p]

\* the sub-handler op of invocation p writes
PollWrote(p, op) ==
  /\ poll[p].pc = "write"
  /\ poll[p].op = op
  /\ poll'[p].pc = "loop"

\* invocation p ends, with or without its /ack
PollEnded(p) ==
  /\ poll[p].pc # "idle"
  /\ poll'[p].pc = "idle"

\* the user's contact handler writes
UiWrote ==
  /\ ui.pc = "write"
  /\ ui'.pc # "write"

\* the record of id in a list that holds one
recordOf(list, id) == list[findIndex(list, id)]

----------------------------------------------------------------------------
(* The trust store: key rotation and the anonymous handshake *)

\* `after` is `before` with nothing but record k changed: it keeps its key,
\* carries the warning and has the key `staged` pending
StagedAt(before, after, k, staged) ==
  /\ Len(after) = Len(before)
  /\ \A j \in 1..Len(before) : j # k => after[j] = before[j]
  /\ after[k].id = before[k].id
  /\ after[k].key = before[k].key
  /\ after[k].securityWarning = TRUE
  /\ after[k].pendingNewKey = staged

\* the list holds a record of this id under another key
Mismatch(list, id, key) ==
  /\ findIndex(list, id) # 0
  /\ list[findIndex(list, id)].key # key

\* C1: when addContactFromHandshake or addContactLocally is given the id of
\* an existing contact C with stored key K1 and a key K2 # K1, the list it
\* writes is the list it read with only C's record changed: key still K1,
\* securityWarning true, pendingNewKey K2
C1_MismatchIsStaged ==
  [][ /\ \A p \in Polls :
           (PollWrote(p, "ACCEPT")
              /\ Mismatch(poll[p].local, poll[p].data.id, poll[p].data.key))
           => /\ Has(contacts')
              /\ StagedAt(poll[p].local, Val(contacts'),
                          findIndex(poll[p].local, poll[p].data.id), poll[p].data.key)
      /\ (UiWrote /\ ui.op = "addContactLocally"
            /\ Mismatch(ui.local, ui.arg.id, ui.arg.key))
         => /\ Has(contacts')
            /\ StagedAt(ui.local, Val(contacts'),
                        findIndex(ui.local, ui.arg.id), ui.arg.key)
    ]_vars

\* a handshake for Bob's id under another key was handled: Bob keeps his key
\* and the other key is pending
C1_Witness ==
  /\ poll[1].op = "ACCEPT"
  /\ poll[1].pc = "loop"
  /\ poll[1].data.id = "ID2"
  /\ Has(contacts)
  /\ findIndex(Val(contacts), "ID2") # 0
  /\ recordOf(Val(contacts), "ID2").key = "bb"
  /\ recordOf(Val(contacts), "ID2").securityWarning
  /\ recordOf(Val(contacts), "ID2").pendingNewKey = "CC"

\* C2: while a record with some id stays in the contact list, its key
\* changes only in the write of approveNewKey for that id
C2_KeyChangesOnlyOnApproval ==
  [][ \A k \in 1..Len(listOf(contacts)) :
        LET c == listOf(contacts)[k]
        IN  (findIndex(listOf(contacts'), c.id) # 0
               /\ recordOf(listOf(contacts'), c.id).key # c.key)
            => (UiWrote /\ ui.op = "approveNewKey" /\ ui.id = c.id)
    ]_vars

\* C3: a record under security warning loses the warning only in the write
\* of approveNewKey for its id, and then it has the pending key as its key,
\* no pending key and isVerified false
C3_WarningEndsOnlyOnApproval ==
  [][ \A k \in 1..Len(listOf(contacts)) :
        LET c == listOf(contacts)[k]
        IN  (c.securityWarning
               /\ findIndex(listOf(contacts'), c.id) # 0
               /\ ~recordOf(listOf(contacts'), c.id).securityWarning)
            => /\ UiWrote /\ ui.op = "approveNewKey" /\ ui.id = c.id
               /\ recordOf(listOf(contacts'), c.id).key = c.pendingNewKey
               /\ recordOf(listOf(contacts'), c.id).pendingNewKey = ""
               /\ ~recordOf(listOf(contacts'), c.id).isVerified
    ]_vars

\* the anonymous form opens under the key prefixed to it and the payload is
\* an ACCEPT that states that same key
OpensAndRestates(env) ==
  /\ env.form = "anon"
  /\ env.to = MyKey
  /\ env.from = env.claimed
  /\ env.body.type = "ACCEPT"
  /\ fromHex(env.body.key) = env.claimed

\* C4: an anonymous-form envelope leads to a write of the contact list only
\* if it opens under the prefixed key and its ACCEPT payload states that key;
\* for any other anonymous-form envelope the dispatcher starts no write and
\* acknowledges nothing, and the contact list stays as it is
C4_AnonymousHandshakeChecked ==
  /\ [](\A p \in Polls :
          (poll[p].pc = "write" /\ poll[p].batch[poll[p].i].content.form = "anon")
          => /\ poll[p].op = "ACCEPT"
             /\ OpensAndRestates(poll[p].batch[poll[p].i].content))
  /\ [][ \A p \in Polls :
           (PollDispatched(p)
              /\ poll[p].batch[poll[p].i + 1].content.form = "anon"
              /\ ~OpensAndRestates(poll[p].batch[poll[p].i + 1].content))
           => /\ poll'[p].pc = "loop"
              /\ poll'[p].processedIds = poll[p].processedIds
              /\ contacts' = contacts
       ]_vars

\* a handshake sealed by cc that states the key dd was examined and dropped
C4_Witness ==
  /\ poll[1].pc = "loop"
  /\ poll[1].i = 1
  /\ poll[1].batch[1].content = SealAnonymous(Accept("ID2", "dd", "n3", TRUE), "cc", "cc")
  /\ poll[1].op = ""
  /\ contacts \in {Some(<<Alice, Bob>>), Some(<<AliceWarned, Bob>>)}

----------------------------------------------------------------------------
(* The dispatcher: attribution, acknowledgment, storing *)

\* the keys of the contacts of a snapshot are pairwise distinct
DistinctKeys(snap) ==
  \A j, k \in 1..Len(snap) : j # k => fromHex(snap[j].key) # fromHex(snap[k].key)

\* no contact key of the snapshot opens the envelope, and it is no anonymous
\* handshake that opens under its prefixed key and states it
OpensUnderNothing(snap, env) ==
  /\ \A k \in 1..Len(snap) :
       ~(env.form = "known" /\ env.to = MyKey /\ env.from = fromHex(snap[k].key))
  /\ ~OpensAndRestates(env)

\* C5: with pairwise distinct contact keys, the item a poll examined that
\* contact k sealed in the known-sender form is attributed to contact k, and
\* no other contact's key opens it; an item that opens under no contact key
\* and is no valid anonymous handshake starts no write, is not put in the
\* acknowledgment and leaves the stored records as they are
C5_TrialDecryption ==
  /\ [](\A p \in Polls : \A k \in 1..Len(poll[p].snap) :
          LET env == poll[p].batch[poll[p].i].content
          IN  (poll[p].i > 0
                 /\ DistinctKeys(poll[p].snap)
                 /\ ~poll[p].snap[k].isSelf
                 /\ env = Seal(env.body, fromHex(poll[p].snap[k].key)))
              => /\ poll[p].sender = poll[p].snap[k]
                 /\ \A j \in 1..Len(poll[p].snap) :
                      j # k => ~BoxOpen(env, "known", fromHex(poll[p].snap[j].key)))
  /\ [][ \A p \in Polls :
           (PollDispatched(p)
              /\ OpensUnderNothing(poll[p].snap, poll[p].batch[poll[p].i + 1].content))
           => /\ poll'[p].pc # "write"
              /\ poll'[p].processedIds = poll[p].processedIds \/ poll'[p].pc = "idle"
              /\ UNCHANGED storeVars
       ]_vars

\* an envelope Bob sealed was examined: the second contact is the sender
C5_Witness ==
  /\ poll[1].i = 1
  /\ poll[1].batch[1].content = Seal(Text("hello"), "bb")
  /\ poll[1].snap = <<Alice, [Bob EXCEPT !.isBlocked = TRUE]>>
  /\ poll[1].sender.id = "ID2"

\* C6: when an invocation that fetched a batch ends, it has sent an
\* acknowledgment that holds the delivery id of every item of the batch
C6_EveryItemAcknowledged ==
  [][ \A p \in Polls :
        PollEnded(p)
        => /\ Len(acks') = Len(acks) + 1
           /\ \A k \in 1..Len(poll[p].batch) :
                \E j \in 1..Len(acks'[Len(acks')]) :
                  acks'[Len(acks')][j] = poll[p].batch[k].id
    ]_vars

\* C7: a history holds at most one message made from one delivered item
C7_OneMessagePerDelivery ==
  \A id \in Ids : \A j, k \in 1..Len(listOf(history[id])) :
    (listOf(history[id])[j].dlv # 0
       /\ listOf(history[id])[j].dlv = listOf(history[id])[k].dlv)
    => j = k

\* the batch of invocation p is one known-sender envelope with the text
\* "hello" from contact k of its snapshot, who is not blocked
HelloFrom(p, k) ==
  /\ Len(poll[p].batch) = 1
  /\ k \in 1..Len(poll[p].snap)
  /\ ~poll[p].snap[k].isSelf
  /\ ~poll[p].snap[k].isBlocked
  /\ poll[p].batch[1].content = Seal(Text("hello"), fromHex(poll[p].snap[k].key))

\* C8: a poll whose batch is the single envelope "hello" from contact A
\* goes on to write A's history as one new message with text "hello" and
\* isMe false in front of the history it read, changes nothing else in the
\* store, and ends with one /ack request that carries exactly the delivery id
C8_HelloStoredAndAcknowledged ==
  [][ \A p \in Polls : \A k \in 1..Len(poll[p].snap) :
        HelloFrom(p, k)
        => LET A == poll[p].snap[k].id
           IN  /\ PollDispatched(p)
                  => poll'[p].pc = "write" /\ poll'[p].op = "STORE"
               /\ (poll[p].pc = "write" /\ poll'[p] # poll[p])
                  => /\ Has(history'[A])
                     /\ Len(Val(history'[A])) = Len(poll[p].hlocal) + 1
                     /\ Val(history'[A])[1].text = "hello"
                     /\ Val(history'[A])[1].isMe = FALSE
                     /\ SubSeq(Val(history'[A]), 2, Len(Val(history'[A]))) = poll[p].hlocal
                     /\ \A id \in Ids \ {A} : history'[id] = history[id]
                     /\ UNCHANGED <<deviceVars, contacts, lastRead, acks>>
               /\ PollEnded(p)
                  => acks' = Append(acks, <<poll[p].batch[1].id>>)
    ]_vars

\* the poll of the single "hello" from Alice is over: her history has the
\* message in front and the one acknowledgment was sent
C8_Witness ==
  /\ pollCount = 1
  /\ \A p \in Polls : poll[p].pc = "idle"
  /\ Has(history["ID1"])
  /\ Len(Val(history["ID1"])) = 2
  /\ Val(history["ID1"])[1].text = "hello"
  /\ Val(history["ID1"])[1].isMe = FALSE
  /\ Val(history["ID1"])[2].text = "mine"
  /\ acks = << <<1>> >>

----------------------------------------------------------------------------
(* Concurrent read-modify-write of one record *)

\* a handler that read the list `read` writes `after` over `stored`: every
\* record and every field that another writer changed since is kept
KeepsOthersChanges(read, stored, after) ==
  /\ \A k \in 1..Len(stored) :
       LET j == findIndex(read, stored[k].id)
           n == findIndex(after, stored[k].id)
       IN  IF j = 0 THEN n # 0 /\ after[n] = stored[k]
           ELSE n # 0 => \A f \in DOMAIN stored[k] :
                           stored[k][f] # read[j][f] => after[n][f] = stored[k][f]
  /\ \A j \in 1..Len(read) :
       findIndex(stored, read[j].id) = 0 => findIndex(after, read[j].id) = 0

\* C9: no write of the contact list removes or reverts what another handler
\* changed after the writing handler read the list
C9_NoLostContactUpdate ==
  [][ /\ UiWrote => KeepsOthersChanges(ui.local, listOf(contacts), listOf(contacts'))
      /\ \A p \in Polls :
           (poll[p].pc = "write"
              /\ poll[p].op \in {"ACCEPT", "PROFILE_UPDATE", "DELETE"}
              /\ poll'[p].pc = "loop")
           => KeepsOthersChanges(poll[p].local, listOf(contacts), listOf(contacts'))
    ]_vars

\* C10: no write of a history removes a stored message that is not expired,
\* or takes the status 'read' from one
C10_NoLostHistoryUpdate ==
  [][ \A id \in Ids : \A k \in 1..Len(listOf(history[id])) :
        LET m == listOf(history[id])[k]
            after == listOf(history'[id])
        IN  (timer[id] = 0 \/ (now - m.timestamp) < timer[id] * 1000)
            => \E n \in 1..Len(after) :
                 /\ after[n].id = m.id
                 /\ m.status = "read" => after[n].status = "read"
    ]_vars

----------------------------------------------------------------------------
(* Texts as bytes: the conversions of send and of the poll *)

\* the character codes of the texts: a space, A, e-acute, the euro sign
CharCodes == {32, 65, 233, 8364}

\* the strings of at most n characters
Strings(n) == UNION { [1..k -> CharCodes] : k \in 0..n }

\* bytes[i] = str.charCodeAt(i) & 0xFF
stringToUint8Array(str) == [i \in 1..Len(str) |-> str[i] % 256]

\* str += String.fromCharCode(arr[i])
uint8ArrayToString(arr) == [i \in 1..Len(arr) |-> arr[i]]

\* base-64 encode of a string of bytes: four sextets for every three bytes,
\* 64 standing for the padding character
encodeBase64(b) ==
  LET n == Len(b)
      byte(i) == IF i <= n THEN b[i] ELSE 0
      v(q) == byte(3 * q + 1) * 65536 + byte(3 * q + 2) * 256 + byte(3 * q + 3)
      sextet(q, r) == IF r = 0 THEN v(q) \div 262144
                      ELSE IF r = 1 THEN (v(q) \div 4096) % 64
                      ELSE IF r = 2 THEN (v(q) \div 64) % 64
                      ELSE v(q) % 64
  IN  [j \in 1..(4 * ((n + 2) \div 3)) |->
         LET q == (j - 1) \div 4
             r == (j - 1) % 4
         IN  IF r >= 2 /\ 3 * q + r > n THEN 64 ELSE sextet(q, r)]

\* base-64 decode: three bytes for every four sextets, less the padding
decodeBase64(t) ==
  LET pad == Cardinality({j \in 1..Len(t) : t[j] = 64})
      six(j) == IF t[j] = 64 THEN 0 ELSE t[j]
      v(q) == six(4 * q + 1) * 262144 + six(4 * q + 2) * 4096
                + six(4 * q + 3) * 64 + six(4 * q + 4)
  IN  [i \in 1..(3 * (Len(t) \div 4) - pad) |->
         LET q == (i - 1) \div 3
             r == (i - 1) % 3
         IN  IF r = 0 THEN v(q) \div 65536
             ELSE IF r = 1 THEN (v(q) \div 256) % 256
             ELSE v(q) % 256]

\* a byte standing for the secret two parties share: the same from either
\* side's secret key and the other side's public key
sharedKey(publicKey, secretKey) ==
  LET byteOf(k) == CASE k = "me" -> 11 [] k = "aa" -> 23 [] k = "bb" -> 47
                     [] k = "cc" -> 95 [] OTHER -> 191
  IN  (byteOf(publicKey) + byteOf(secretKey)) % 256

\* nacl.box: an authenticator in front of the enciphered bytes
box(msg, nonce, publicKey, secretKey) ==
  LET k == sharedKey(publicKey, secretKey)
  IN  <<(3 * k + nonce + Len(msg)) % 256>>
        \o [i \in 1..Len(msg) |-> (msg[i] + k + nonce) % 256]

\* nacl.box.open: the bytes when the authenticator fits, none otherwise
boxOpen(cipher, nonce, publicKey, secretKey) ==
  LET k == sharedKey(publicKey, secretKey)
  IN  IF Len(cipher) >= 1 /\ cipher[1] = (3 * k + nonce + Len(cipher) - 1) % 256
      THEN Some([i \in 1..(Len(cipher) - 1) |-> (cipher[i + 1] + 512 - k - nonce) % 256])
      ELSE None

\* send, chat.tsx 336-348: the content posted for contentToSend
sealedContent(contentToSend, nonce, peerKey, myKey) ==
  encodeBase64(uint8ArrayToString(
    <<nonce>> \o box(stringToUint8Array(contentToSend), nonce, peerKey, myKey)))

\* checkGlobalMessages, lines 110-125: the text obtained under the keys of
\* the contacts, none when no key opens the content
openedText(content, snap, myKey) ==
  LET fullMessage == stringToUint8Array(decodeBase64(content))
      nonce == fullMessage[1]
      ciphertext == SubSeq(fullMessage, 2, Len(fullMessage))
      opens(k) == /\ ~snap[k].isSelf
                  /\ Has(boxOpen(ciphertext, nonce, fromHex(snap[k].key), myKey))
  IN  IF Len(fullMessage) >= 1 /\ \E k \in 1..Len(snap) : opens(k)
      THEN LET k == CHOOSE k \in 1..Len(snap) :
                      opens(k) /\ \A j \in 1..(k - 1) : ~opens(j)
           IN  Some(uint8ArrayToString(
                      Val(boxOpen(ciphertext, nonce, fromHex(snap[k].key), myKey))))
      ELSE None

\* Alice sends the text: her contact for this user has this user's key
CodecSend(nonce) ==
  /\ codec.pc = "typed"
  /\ codec' = [codec EXCEPT !.pc = "sent",
                            !.content = sealedContent(codec.plain, nonce, MyKey, "aa")]
  /\ UNCHANGED <<coreVars, storageVars, appVars>>

\* this user's poll opens it
CodecOpen ==
  /\ codec.pc = "sent"
  /\ Has(contacts)
  /\ codec' = [codec EXCEPT !.pc = "opened",
                            !.got = openedText(codec.content, Val(contacts), MyKey)]
  /\ UNCHANGED <<coreVars, storageVars, appVars>>

InitCodec ==
  /\ InitClient
  /\ timer = [id \in Ids |-> 0]
  /\ contacts = Some(<<Bob, Alice>>)
  /\ history = [id \in Ids |-> None]
  /\ IdleStorage
  /\ IdleApp
  /\ codec \in { [IdleCodec EXCEPT !.pc = "typed", !.plain = P] :
                   P \in Strings(MaxLen) \ {<<>>} }

NextCodec ==
  \/ \E nonce \in {0, 7, 200} : CodecSend(nonce)
  \/ CodecOpen

SpecCodec == InitCodec /\ [][NextCodec]_vars

\* C11: the text the recipient's poll obtains from the envelope send built
\* for a text P is P
C11_EnvelopeRoundTrip ==
  codec.pc = "opened" => codec.got = Some(codec.plain)

----------------------------------------------------------------------------
(* The storage engine: secureSet, secureGet, migrateLegacyData *)

\* a raw value of AsyncStorage.  b64: the text is base-64 (its characters are
\* sextets) and decodeBase64 accepts it; otherwise the text is characters and
\* decodeBase64 throws.  json: JSON.parse accepts the text
Raw(b64, json, text) == [b64 |-> b64, json |-> json, text |-> text]

\* the key derived from the stored secret key (two rounds of SHA-256)
deriveKey(stored) == IF stored = "s1" THEN 29 ELSE 71

\* a variant that falls back on a fixed key
getEncryptionKeyFixed(cache, stored) ==
  IF Has(cache) THEN cache
  ELSE IF Has(stored) THEN Some(deriveKey(Val(stored)))
  ELSE Some(0)

\* getEncryptionKey: the cached key, or the one derived from the stored secret
getEncryptionKey(cache, stored) ==
  IF Has(cache) THEN cache
  ELSE IF Has(stored) THEN Some(deriveKey(Val(stored)))
  ELSE None

\* nacl.secretbox: an authenticator in front of the enciphered bytes
secretbox(msg, nonce, key) ==
  <<(3 * key + nonce + Len(msg)) % 256>>
    \o [i \in 1..Len(msg) |-> (msg[i] + key + nonce) % 256]

\* nacl.secretbox.open
secretboxOpen(cipher, nonce, key) ==
  IF Len(cipher) >= 1 /\ cipher[1] = (3 * key + nonce + Len(cipher) - 1) % 256
  THEN Some([i \in 1..(Len(cipher) - 1) |-> (cipher[i + 1] + 512 - key - nonce) % 256])
  ELSE None

\* lines 66-75: the raw value secureSet stores for a value
encryptedRaw(value, nonce, encKey) ==
  Raw(TRUE, FALSE,
      encodeBase64(uint8ArrayToString(
        <<nonce>> \o secretbox(stringToUint8Array(value), nonce, encKey))))

\* lines 95-106: the bytes a raw value decrypts to, None when it does not
decryptedRaw(raw, encKey) ==
  IF ~raw.b64 THEN None
  ELSE LET fullMessage == stringToUint8Array(decodeBase64(raw.text))
       IN  IF Len(fullMessage) < 1 + 1 THEN None
           ELSE secretboxOpen(SubSeq(fullMessage, 2, Len(fullMessage)),
                              fullMessage[1], encKey)

\* a variant that keeps a value that is no JSON
migrateLegacyDataKeeping(raw, nonce, encKey) ==
  IF raw.json
  THEN [store |-> Some(encryptedRaw(raw.text, nonce, encKey)), result |-> Some(raw.text),
        warned |-> FALSE]
  ELSE [store |-> Some(raw), result |-> None, warned |-> TRUE]

\* migrateLegacyData: what is left at the key and what is returned
migrateLegacyData(raw, nonce, encKey) ==
  IF raw.json
  THEN [store |-> Some(encryptedRaw(raw.text, nonce, encKey)), result |-> Some(raw.text),
        warned |-> FALSE]
  ELSE [store |-> None, result |-> None, warned |-> TRUE]

\* secureGet for the raw value found at the key and the encryption key
secureGet(found, key, nonce) ==
  IF ~Has(found) \/ Val(found).text = <<>>
  THEN [store |-> found, result |-> None, warned |-> FALSE]
  ELSE IF ~Has(key) THEN [store |-> found, result |-> None, warned |-> FALSE]
  ELSE IF Has(decryptedRaw(Val(found), Val(key)))
       THEN [store |-> found,
             result |-> Some(uint8ArrayToString(Val(decryptedRaw(Val(found), Val(key))))),
             warned |-> FALSE]
  ELSE migrateLegacyData(Val(found), nonce, Val(key))

\* secureSet(k, value): throws without a key, stores the encrypted value
SecureSet(k, value, nonce) ==
  LET key == getEncryptionKey(cachedEncKey, secret)
  IN  /\ cachedEncKey' = key
      /\ disk' = IF Has(key)
                 THEN [disk EXCEPT ![k] = Some(encryptedRaw(value, nonce, Val(key)))]
                 ELSE disk
      /\ put' = IF Has(key) THEN [put EXCEPT ![k] = Some(value)] ELSE put
      /\ io' = [op |-> "secureSet", key |-> k, result |-> None,
                threw |-> ~Has(key), warned |-> FALSE]
      /\ UNCHANGED <<coreVars, codec, appVars, secret>>

\* secureGet(k): getEncryptionKey is called only for a key that holds a value
SecureGet(k, nonce) ==
  LET found == disk[k]
      key == IF ~Has(found) \/ Val(found).text = <<>> THEN cachedEncKey
             ELSE getEncryptionKey(cachedEncKey, secret)
      got == secureGet(found, key, nonce)
  IN  /\ cachedEncKey' = key
      /\ disk' = [disk EXCEPT ![k] = got.store]
      /\ put' = put
      /\ io' = [op |-> "secureGet", key |-> k, result |-> got.result,
                threw |-> FALSE, warned |-> got.warned]
      /\ UNCHANGED <<coreVars, codec, appVars, secret>>

\* secureClear(k)
SecureClear(k) ==
  /\ disk' = [disk EXCEPT ![k] = None]
  /\ put' = [put EXCEPT ![k] = None]
  /\ io' = [op |-> "secureClear", key |-> k, result |-> None,
            threw |-> FALSE, warned |-> FALSE]
  /\ UNCHANGED <<coreVars, codec, appVars, secret, cachedEncKey>>

\* what an installation may hold at a key before the engine touches it:
\* nothing, legacy plaintext JSON, text that is no JSON, the empty string,
\* base-64 that is no record, a record encrypted under another identity's key
InitRaws ==
  { None,
    Some(Raw(FALSE, TRUE, <<65>>)),
    Some(Raw(FALSE, TRUE, <<65, 8364>>)),
    Some(Raw(FALSE, FALSE, <<65, 233>>)),
    Some(Raw(FALSE, FALSE, <<>>)),
    Some(Raw(TRUE, FALSE, <<16, 16, 16, 16>>)),
    Some(encryptedRaw(<<65>>, 7, deriveKey("s2"))) }

InitStorage ==
  /\ InitClient
  /\ timer = [id \in Ids |-> 0]
  /\ contacts = None
  /\ history = [id \in Ids |-> None]
  /\ codec = IdleCodec
  /\ IdleApp
  /\ disk \in [StoreKeys -> InitRaws]
  /\ \E k \in StoreKeys : disk[k] = None
  /\ secret \in {None, Some("s1")}
  /\ cachedEncKey = None
  /\ io = NoCall
  /\ put = [k \in StoreKeys |-> None]

\* the values the callers store: texts without blanks
StoredValues == { v \in Strings(MaxLen) : \A i \in 1..Len(v) : v[i] # 32 }

NextStorage ==
  \/ \E k \in StoreKeys, value \in StoredValues : SecureSet(k, value, 7)
  \/ \E k \in StoreKeys, nonce \in {7, 200} : SecureGet(k, nonce)
  \/ \E k \in StoreKeys : SecureClear(k)

SpecStorage == InitStorage /\ [][NextStorage]_vars

\* the last call was secureGet(k)
GotKey(k) == io'.op = "secureGet" /\ io'.key = k

\* C12: secureGet(k) after secureSet(k, v) under the same identity returns
\* v, however often it is called
C12_StorageRoundTrip ==
  [][ \A k \in StoreKeys :
        (GotKey(k) /\ Has(put[k])) => io'.result = put[k]
    ]_vars

\* C13: secureGet(k) of a plaintext value that parses as JSON returns that
\* value and leaves at k a record that decrypts to the same value
C13_LegacyMigration ==
  [][ \A k \in StoreKeys :
        (GotKey(k)
           /\ Has(disk[k])
           /\ ~Val(disk[k]).b64
           /\ Val(disk[k]).json
           /\ Has(getEncryptionKey(cachedEncKey, secret)))
        => /\ io'.result = Some(Val(disk[k]).text)
           /\ Has(disk'[k])
           /\ decryptedRaw(Val(disk'[k]), Val(getEncryptionKey(cachedEncKey, secret)))
                = Some(Val(disk[k]).text)
    ]_vars

\* C14: with no secret key stored and none cached, secureGet returns null
\* and secureSet throws, and neither changes the store
C14_FailClosedWithoutKey ==
  [][ (~Has(secret) /\ ~Has(cachedEncKey))
      => /\ io'.op = "secureGet" => (io'.result = None /\ disk' = disk)
         /\ io'.op = "secureSet" => (io'.threw /\ disk' = disk)
    ]_vars

\* secureSet was called without a key, over a legacy value that is still there
C14_Witness ==
  /\ io.op = "secureSet"
  /\ io.threw
  /\ ~Has(secret)
  /\ \E k \in StoreKeys : disk[k] = Some(Raw(FALSE, TRUE, <<65>>))

\* the raw value neither decrypts under the key nor parses as JSON
Corrupted(raw, key) == ~Has(decryptedRaw(raw, key)) /\ ~raw.json

Secrets == {"s1", "s2"}

\* the storage key of the profile
PROFILE_KEY == "k1"

\* the profiles finishOnboarding stores: JSON texts, never empty
Profiles == StoredValues \ {<<>>}

\* generateNewIdentity: what SecureStore holds afterwards, whatever it held
generateNewIdentity(stored, fresh) == Some(fresh)

\* setupIdentity of the home screen, up to the read of the stored key
SetupRead ==
  /\ segments = "(tabs)"
  /\ setup.pc = "idle"
  /\ setup' = [pc |-> "read", stored |-> secret]
  /\ UNCHANGED <<coreVars, codec, storageVars, segments, lockVars>>

\* setupIdentity from the read on: a key is drawn and stored when none was read
SetupWrite(fresh) ==
  /\ setup.pc = "read"
  /\ secret' = IF Has(setup.stored) THEN secret ELSE Some(fresh)
  /\ setup' = IdleSetup
  /\ UNCHANGED <<coreVars, codec, disk, cachedEncKey, io, put, segments, lockVars>>

\* checkProfile of the root layout: reads the profile and routes
CheckProfile(nonce) ==
  LET found == disk[PROFILE_KEY]
      key == IF ~Has(found) \/ Val(found).text = <<>> THEN cachedEncKey
             ELSE getEncryptionKey(cachedEncKey, secret)
      got == secureGet(found, key, nonce)
      profile == Has(got.result) /\ Val(got.result) # <<>>
  IN  /\ cachedEncKey' = key
      /\ disk' = [disk EXCEPT ![PROFILE_KEY] = got.store]
      /\ put' = put
      /\ io' = [op |-> "secureGet", key |-> PROFILE_KEY, result |-> got.result,
                threw |-> FALSE, warned |-> got.warned]
      /\ segments' = IF ~profile /\ segments = "(tabs)" THEN "onboarding"
                     ELSE IF profile /\ segments = "onboarding" THEN "(tabs)"
                     ELSE segments
      /\ UNCHANGED <<coreVars, codec, secret, setup, lockVars>>

\* finishOnboarding: generateNewIdentity, then secureSet of the profile, then
\* the route to the home screen; the alert when secureSet throws
FinishOnboarding(fresh, profile, nonce) ==
  /\ segments = "onboarding"
  /\ secret' = generateNewIdentity(secret, fresh)
  /\ LET key == getEncryptionKey(cachedEncKey, secret')
     IN  /\ cachedEncKey' = key
         /\ disk' = IF Has(key)
                    THEN [disk EXCEPT
                            ![PROFILE_KEY] = Some(encryptedRaw(profile, nonce, Val(key)))]
                    ELSE disk
         /\ put' = IF Has(key) THEN [put EXCEPT ![PROFILE_KEY] = Some(profile)] ELSE put
         /\ io' = [op |-> "secureSet", key |-> PROFILE_KEY, result |-> None,
                   threw |-> ~Has(key), warned |-> FALSE]
         /\ segments' = IF Has(key) THEN "(tabs)" ELSE segments
  /\ UNCHANGED <<coreVars, codec, setup, lockVars>>

\* the process ends and starts again: module variables and handlers are gone
Restart ==
  /\ cachedEncKey' = None
  /\ setup' = IdleSetup
  /\ segments' = "(tabs)"
  /\ io' = NoCall
  /\ UNCHANGED <<coreVars, codec, disk, secret, put, lockVars>>

\* a first start or a later one, with whatever the profile key holds
InitIdentity ==
  /\ InitClient
  /\ timer = [id \in Ids |-> 0]
  /\ contacts = None
  /\ history = [id \in Ids |-> None]
  /\ codec = IdleCodec
  /\ IdleApp
  /\ disk \in [StoreKeys -> InitRaws]
  /\ \A k \in StoreKeys \ {PROFILE_KEY} : disk[k] = None
  /\ secret \in {None, Some("s1")}
  /\ cachedEncKey = None
  /\ io = NoCall
  /\ put = [k \in StoreKeys |-> None]

NextIdentity ==
  \/ SetupRead
  \/ \E fresh \in Secrets \ {secret[i] : i \in 1..Len(secret)} : SetupWrite(fresh)
  \/ \E nonce \in {7} : CheckProfile(nonce)
  \/ \E fresh \in Secrets \ {secret[i] : i \in 1..Len(secret)}, profile \in Profiles :
       FinishOnboarding(fresh, profile, 7)
  \/ Restart

SpecIdentity == InitIdentity /\ [][NextIdentity]_vars

\* C16: a secret key that is stored stays the stored secret key, whatever
\* onboarding, the home screen's identity setup and identity generation do
C16_StoredKeyNotReplaced ==
  [][ Has(secret) => secret' = secret ]_vars

\* ---------------------------------------------------------------------
\* The PIN lock: the persisted failure counter and the LockScreen component

\* the failure counts considered
MaxAttempts == 16

\* the seconds that pass between two steps
Waits == {10, 300}

\* a variant whose fourth and third steps are exchanged
getDelayExchanged(failedAttempts) ==
  IF failedAttempts >= 15 THEN 300
  ELSE IF failedAttempts >= 10 THEN 60
  ELSE IF failedAttempts >= 7 THEN 120
  ELSE IF failedAttempts >= 5 THEN 30
  ELSE IF failedAttempts >= 3 THEN 10
  ELSE 0

\* getDelay: the seconds to wait after that many failed attempts
getDelay(failedAttempts) ==
  IF failedAttempts >= 15 THEN 300
  ELSE IF failedAttempts >= 10 THEN 120
  ELSE IF failedAttempts >= 7 THEN 60
  ELSE IF failedAttempts >= 5 THEN 30
  ELSE IF failedAttempts >= 3 THEN 10
  ELSE 0

\* loadFailedAttempts: the stored count, 0 when there is none
loadFailedAttempts(stored) == IF Has(stored) THEN Val(stored) ELSE 0

\* the LockScreen mounts in unlock mode: its state is fresh and the mount
\* effect calls loadPersistedState and checkBiometrics
LockMount ==
  /\ ~lock.mounted
  /\ lock' = [Unmounted EXCEPT !.mounted = TRUE, !.load = "reading",
                               !.biometrics = "pending"]
  /\ UNCHANGED <<coreVars, codec, storageVars, identityVars, failedStore, sinceFail, pinRecord>>

\* loadPersistedState, up to the read of the counter
LoadRead ==
  /\ lock.load = "reading"
  /\ lock' = [lock EXCEPT !.load = "read",
                          !.persistedFailed = loadFailedAttempts(failedStore)]
  /\ UNCHANGED <<coreVars, codec, storageVars, identityVars, failedStore, sinceFail, pinRecord>>

\* loadPersistedState from the read on
LoadApply ==
  /\ lock.load = "read"
  /\ LET persistedFailed == lock.persistedFailed
         delay == getDelay(persistedFailed)
     IN  lock' = [lock EXCEPT
                    !.load = "done",
                    !.failedAttempts = IF persistedFailed > 0 THEN persistedFailed ELSE @,
                    !.cooldownRemaining = IF persistedFailed > 0 /\ delay > 0 THEN delay ELSE @]
  /\ UNCHANGED <<coreVars, codec, storageVars, identityVars, failedStore, sinceFail, pinRecord>>

\* the PINs a user enters
Pins == {"1234", "0000"}

\* the salts generateSalt draws
Salts == {"a", "b"}

\* stand-ins for the two iterated SHA-256 constructions: one value for every
\* pin and salt, different between the constructions
hashPin(pin, salt) == [algorithm |-> "ghost:pin:v2", salt |-> salt, pin |-> pin]

hashPinLegacy(pin, salt) == [algorithm |-> "legacy", salt |-> salt, pin |-> pin]

\* the record setup and migration store
PinRecord(hash, salt) == [hash |-> hash, salt |-> salt]

\* how the entry matches the stored record: "current", "legacy" or ""
matches(storedValue, enteredInput) ==
  IF ~Has(storedValue) THEN ""
  ELSE IF hashPin(enteredInput, Val(storedValue).salt) = Val(storedValue).hash
       THEN "current"
  ELSE IF hashPinLegacy(enteredInput, Val(storedValue).salt) = Val(storedValue).hash
       THEN "legacy"
  ELSE ""

\* handlePress of the last digit and handleComplete up to the comparison of
\* the entry with the stored PIN record, which it reads
CompleteStart(enteredInput) ==
  /\ lock.mounted
  /\ lock.verify = "idle"
  /\ lock.cooldownRemaining = 0
  /\ lock.failedAttempts < MaxAttempts
  /\ lock' = [lock EXCEPT !.verify = "checking",
                          !.valid = matches(pinRecord, enteredInput) # "",
                          !.closure = lock.failedAttempts,
                          !.enteredInput = enteredInput,
                          !.storedValue = pinRecord]
  /\ UNCHANGED <<coreVars, codec, storageVars, identityVars, failedStore, sinceFail, pinRecord>>

\* a variant that stores the migrated record under the legacy construction
migratedLegacy(enteredInput, newSalt) ==
  PinRecord(hashPinLegacy(enteredInput, newSalt), newSalt)

\* the record a legacy match is migrated to
migrated(enteredInput, newSalt) == PinRecord(hashPin(enteredInput, newSalt), newSalt)

\* a variant that unlocks without clearing the persisted counter
CompleteEndKeeping(newSalt) ==
  /\ lock.verify = "checking"
  /\ pinRecord' = IF matches(lock.storedValue, lock.enteredInput) = "legacy"
                  THEN Some(migrated(lock.enteredInput, newSalt))
                  ELSE pinRecord
  /\ IF lock.valid
     THEN /\ failedStore' = failedStore
          /\ lock' = [Unmounted EXCEPT !.onUnlock = "pin"]
          /\ sinceFail' = sinceFail
     ELSE LET newFailed == lock.closure + 1
              delay == getDelay(newFailed)
          IN  /\ failedStore' = Some(newFailed)
              /\ lock' = [lock EXCEPT
                            !.verify = "idle",
                            !.failedAttempts = newFailed,
                            !.cooldownRemaining = IF delay > 0 THEN delay ELSE @]
              /\ sinceFail' = 0
  /\ UNCHANGED <<coreVars, codec, storageVars, identityVars>>

\* handleComplete from the comparison on: the migration of a legacy match,
\* then unlock, or count the failure
CompleteEnd(newSalt) ==
  /\ lock.verify = "checking"
  /\ pinRecord' = IF matches(lock.storedValue, lock.enteredInput) = "legacy"
                  THEN Some(migrated(lock.enteredInput, newSalt))
                  ELSE pinRecord
  /\ IF lock.valid
     THEN /\ failedStore' = None
          /\ lock' = [Unmounted EXCEPT !.onUnlock = "pin"]
          /\ sinceFail' = sinceFail
     ELSE LET newFailed == lock.closure + 1
              delay == getDelay(newFailed)
          IN  /\ failedStore' = Some(newFailed)
              /\ lock' = [lock EXCEPT
                            !.verify = "idle",
                            !.failedAttempts = newFailed,
                            !.cooldownRemaining = IF delay > 0 THEN delay ELSE @]
              /\ sinceFail' = 0
  /\ UNCHANGED <<coreVars, codec, storageVars, identityVars>>

\* checkBiometrics of the mount effect ends: onUnlock when the user passed
LockBiometrics(success) ==
  /\ lock.biometrics = "pending"
  /\ lock' = IF success
             THEN [Unmounted EXCEPT !.onUnlock = "biometrics"]
             ELSE [lock EXCEPT !.biometrics = "done"]
  /\ UNCHANGED <<coreVars, codec, storageVars, identityVars, failedStore, sinceFail, pinRecord>>

\* seconds pass: the interval of startCooldown counts down
LockWait(seconds) ==
  /\ sinceFail < 300 \/ lock.cooldownRemaining > 0
  /\ sinceFail' = IF sinceFail + seconds > 300 THEN 300 ELSE sinceFail + seconds
  /\ lock' = [lock EXCEPT
                !.cooldownRemaining = IF @ > seconds THEN @ - seconds ELSE 0]
  /\ UNCHANGED <<coreVars, codec, storageVars, identityVars, failedStore, pinRecord>>

\* the process is restarted, or the LockScreen is unmounted: its state and
\* its handlers in flight are gone
LockRestart ==
  /\ lock.mounted
  /\ lock' = Unmounted
  /\ UNCHANGED <<coreVars, codec, storageVars, identityVars, failedStore, sinceFail, pinRecord>>

\* a PIN is set; the counter is what earlier runs left, the last failure just
\* recorded
InitLock ==
  /\ InitClient
  /\ timer = [id \in Ids |-> 0]
  /\ contacts = None
  /\ history = [id \in Ids |-> None]
  /\ codec = IdleCodec
  /\ IdleStorage
  /\ segments = "(tabs)"
  /\ setup = IdleSetup
  /\ failedStore \in {None} \cup {Some(n) : n \in 1..MaxAttempts}
  /\ sinceFail = IF Has(failedStore) THEN 0 ELSE 300
  /\ lock = Unmounted
  /\ pinRecord = Some(PinRecord(hashPin("1234", "a"), "a"))

NextLock ==
  \/ LockMount
  \/ LoadRead
  \/ LoadApply
  \/ \E enteredInput \in Pins : CompleteStart(enteredInput)
  \/ \E newSalt \in Salts \ {Val(pinRecord).salt} : CompleteEnd(newSalt)
  \/ \E seconds \in Waits : LockWait(seconds)
  \/ LockRestart

SpecLock == InitLock /\ [][NextLock]_vars

\* a PIN is set by the current or by an earlier version of the application,
\* on a device with biometrics; no failure is recorded, or five just now
InitPin ==
  /\ InitClient
  /\ timer = [id \in Ids |-> 0]
  /\ contacts = None
  /\ history = [id \in Ids |-> None]
  /\ codec = IdleCodec
  /\ IdleStorage
  /\ segments = "(tabs)"
  /\ setup = IdleSetup
  /\ failedStore \in {None, Some(5)}
  /\ sinceFail = IF Has(failedStore) THEN 0 ELSE 300
  /\ lock = Unmounted
  /\ pinRecord \in { Some(PinRecord(hashPin("1234", "a"), "a")),
                     Some(PinRecord(hashPinLegacy("1234", "a"), "a")) }

NextPin ==
  \/ LockMount
  \/ LoadRead
  \/ LoadApply
  \/ \E enteredInput \in Pins : CompleteStart(enteredInput)
  \/ \E newSalt \in Salts \ {Val(pinRecord).salt} : CompleteEnd(newSalt)
  \/ \E success \in BOOLEAN : LockBiometrics(success)
  \/ LockWait(300)
  \/ LockRestart

SpecPin == InitPin /\ [][NextPin]_vars

\* handleComplete goes on to compare an entry with the PIN record
Evaluates == lock.verify = "idle" /\ lock'.verify = "checking"

\* C17: while the persisted counter gives a delay, no entry is evaluated
\* before that delay has passed since the last failed attempt
C17_NoAttemptDuringLockout ==
  [][ (Evaluates /\ Has(failedStore) /\ getDelay(Val(failedStore)) > 0)
      => sinceFail >= getDelay(Val(failedStore))
    ]_vars

\* C18: getDelay is non-decreasing in the count, 0 below 3 and at most 300:
\* for the count n the lock screen holds and every count m
C18_DelayMonotone ==
  LET n == lock.failedAttempts
  IN  /\ \A m \in 0..MaxAttempts :
           /\ m <= n => getDelay(m) <= getDelay(n)
           /\ n <= m => getDelay(n) <= getDelay(m)
      /\ n < 3 => getDelay(n) = 0
      /\ getDelay(n) <= 300

\* the lock screen waits the longest delay for a count of 15 or more
C18_Witness ==
  /\ lock.mounted
  /\ lock.failedAttempts >= 15
  /\ lock.cooldownRemaining = getDelay(lock.failedAttempts)
  /\ lock.cooldownRemaining = 300

\* handleComplete ends with a successful verification
Unlocks == lock.verify = "checking" /\ lock.valid /\ lock'.verify = "idle"

\* C19: the persisted counter neither decreases nor disappears, except when
\* a verification succeeds
C19_CounterNeverDecreases ==
  [][ Has(failedStore)
      => \/ Has(failedStore') /\ Val(failedStore') >= Val(failedStore)
         \/ Unlocks
    ]_vars

\* handleComplete ends with a failed verification
Fails ==
  lock.verify = "checking" /\ ~lock.valid /\ lock'.verify = "idle" /\ lock'.mounted

\* C25: each failed unlock attempt persists a counter exactly one greater
\* than the value persisted before
C25_FailurePersistsOneMore ==
  [][ Fails => failedStore' = Some(loadFailedAttempts(failedStore) + 1) ]_vars

\* the LockScreen calls onUnlock, from the path named
InvokesOnUnlock(path) ==
  lock.mounted /\ ~lock'.mounted /\ lock'.onUnlock = path

currentFormat(record) ==
  Has(record) /\ Val(record).hash = hashPin(Val(record).hash.pin, Val(record).salt)

LockoutInForce ==
  /\ Has(failedStore)
  /\ getDelay(Val(failedStore)) > 0
  /\ sinceFail < getDelay(Val(failedStore))

\* C28: onUnlock is never called while a lockout is in force, and only
\* after an entry that matches the stored record
C28_NoUnlockDuringLockout ==
  [][ (lock.mounted /\ ~lock'.mounted /\ lock'.onUnlock # "")
      => /\ ~LockoutInForce
         /\ lock'.onUnlock = "pin"
         /\ matches(lock.storedValue, lock.enteredInput) # ""
    ]_vars

\* ---------------------------------------------------------------------
\* The two sweeps of disappearing messages on their own

\* Date.now() when the sweeps begin
SweepNow == 100000

\* the ages in milliseconds of the messages stored when the sweeps begin
Ages == {58000, 59000, 60000, 61000}

\* the message of that age, its id made from its age
Aged(age) == Message(age \div 1000, "old", SweepNow - age, FALSE, "received", 0)

\* the histories stored when the sweeps begin: newest first
RECURSIVE Newest(_)
Newest(ages) ==
  IF ages = {} THEN <<>>
  ELSE LET least == CHOOSE a \in ages : \A b \in ages : a <= b
       IN  <<Aged(least)>> \o Newest(ages \ {least})

\* Alice's conversation disappears after 60 seconds, Bob's after one; hers
\* holds at least the messages of 59 and of 61 seconds
InitSweep ==
  /\ InitDevice
  /\ IdleExt
  /\ lastRead = {}
  /\ now = SweepNow
  /\ ticks = 0
  /\ queue = <<>>
  /\ nextDelivery = 1
  /\ acks = <<>>
  /\ poll = [p \in Polls |-> IdlePoll]
  /\ pollCount = 0
  /\ nextMsg = 1
  /\ ui = IdleUi
  /\ screen = NoScreen
  /\ userOps = 0
  /\ chat = IdleChat
  /\ sweeper = IdleSweeper
  /\ timer = [id \in Ids |-> IF id = "ID1" THEN 60 ELSE IF id = "ID2" THEN 1 ELSE 0]
  /\ contacts = Some(<<Alice, Bob>>)
  /\ \E ages \in SUBSET Ages :
       /\ {59000, 61000} \subseteq ages
       /\ history = [id \in Ids |->
                       IF id = "ID1" THEN Some(Newest(ages))
                       ELSE IF id = "ID2" THEN Some(<<Aged(500)>>)
                       ELSE None]

NextSweep ==
  \/ Tick
  \/ \E id \in {"ID1", "ID2"} : ChatClean(id)
  \/ ChatWrite
  \/ SweepStart
  \/ SweepStep
  \/ SweepWrite

SpecSweep == InitSweep /\ [][NextSweep]_vars

\* after holds exactly the messages of before that are younger than t seconds
\* at the time at, in the order of before
KeptExactly(before, after, at, t) ==
  /\ \A k \in 1..Len(before) :
       (at - before[k].timestamp < t * 1000)
         <=> (\E j \in 1..Len(after) : after[j] = before[k])
  /\ \A j \in 1..Len(after) : \E k \in 1..Len(before) : before[k] = after[j]
  /\ \A i, j \in 1..Len(after) :
       i < j => \E p, q \in 1..Len(before) :
                  p < q /\ before[p] = after[i] /\ before[q] = after[j]

\* C20: what a sweep with timer t that took the time now writes is exactly
\* the messages m of the history it read with now - m.timestamp < t * 1000,
\* in their order, and that is what it leaves in the stored history
C20_SweepKeepsExactly ==
  [][ /\ (chat.pc = "idle" /\ chat'.pc = "write")
         => KeptExactly(Val(history[chat'.id]), chat'.hlocal, now, timer[chat'.id])
      /\ (chat.pc = "write" /\ chat'.pc = "idle")
         => history'[chat.id] = Some(chat.hlocal)
      /\ (sweeper.pc = "loop" /\ sweeper'.pc = "write")
         => LET id == sweeper.list[sweeper'.k].id
            IN  KeptExactly(Val(history[id]), sweeper'.hlocal, sweeper.now, timer[id])
      /\ (sweeper.pc = "write" /\ sweeper'.pc = "loop")
         => listOf(history'[sweeper.list[sweeper.k].id]) = sweeper.hlocal
    ]_vars

\* with a timer of 60 seconds a sweep at SweepNow removed the message of
\* SweepNow - 61000 and kept the one of SweepNow - 59000
C20_Witness ==
  /\ now = SweepNow
  /\ timer["ID1"] = 60
  /\ chat.pc = "idle"
  /\ sweeper.pc = "idle"
  /\ Has(history["ID1"])
  /\ \E k \in 1..Len(Val(history["ID1"])) : Val(history["ID1"])[k] = Aged(59000)
  /\ \A k \in 1..Len(Val(history["ID1"])) : Val(history["ID1"])[k] # Aged(61000)

\* C29: no history record ever holds an empty list: a sweep that removes
\* every message removes the record
C29_EmptyHistoryIsRemoved ==
  \A id \in Ids : history[id] # Some(<<>>)

\* ---------------------------------------------------------------------
\* The safety number of the contact-details screen

\* the character codes of hex digits used in keys: 0, a, f
HexCodes == {48, 97, 102}

\* the hex strings of one to n digits
HexStrings(n) == UNION { [1..k -> HexCodes] : k \in 1..n }

\* the order Array.prototype.sort gives two strings: by code unit, a prefix first
RECURSIVE comesBefore(_, _)
comesBefore(a, b) ==
  IF a = <<>> THEN b # <<>>
  ELSE IF b = <<>> THEN FALSE
  ELSE IF a[1] # b[1] THEN a[1] < b[1]
  ELSE comesBefore(Tail(a), Tail(b))

\* [key1, key2].sort().join("")
sortedJoin(key1, key2) == IF comesBefore(key2, key1) THEN key2 \o key1 ELSE key1 \o key2

\* a stand-in for the SHA-256 digest: sixteen hex digits (as numbers) that
\* depend on every character and on its position
RECURSIVE mix(_, _, _)
mix(str, i, j) ==
  IF i > Len(str) THEN j
  ELSE (mix(str, i + 1, j) * 7 + str[i] * (i + j)) % 16

digestStringAsync(str) == [j \in 1..16 |-> mix(str, 1, j)]

\* parseInt(hash.substring(from, from + 4), 16)
parseHex4(hash, from) ==
  hash[from + 1] * 4096 + hash[from + 2] * 256 + hash[from + 3] * 16 + hash[from + 4]

\* Number.prototype.toString: the decimal digits as character codes
RECURSIVE toDecimal(_)
toDecimal(n) ==
  IF n < 10 THEN <<48 + n>> ELSE toDecimal(n \div 10) \o <<48 + (n % 10)>>

\* padStart(4, '0')
padStart4(str) ==
  IF Len(str) >= 4 THEN str ELSE [i \in 1..(4 - Len(str)) |-> 48] \o str

\* slice(-4)
sliceLast4(str) ==
  IF Len(str) <= 4 THEN str ELSE SubSeq(str, Len(str) - 3, Len(str))

\* one group of the safety number
group(hash, from) == sliceLast4(padStart4(toDecimal(parseHex4(hash, from))))

\* a variant that joins the keys as given
generateSafetyNumberUnsorted(key1, key2) ==
  LET hash == digestStringAsync(key1 \o key2)
  IN  group(hash, 0) \o <<32>> \o group(hash, 4) \o <<32>>
        \o group(hash, 8) \o <<32>> \o group(hash, 12)

\* generateSafetyNumber: `${n1} ${n2} ${n3} ${n4}`
generateSafetyNumber(key1, key2) ==
  LET hash == digestStringAsync(sortedJoin(key1, key2))
  IN  group(hash, 0) \o <<32>> \o group(hash, 4) \o <<32>>
        \o group(hash, 8) \o <<32>> \o group(hash, 12)

\* loadContact on this device, and on the contact's device with the keys
\* the other way round
LoadSafetyNumber(myPkHex, key) ==
  /\ safety.pc = "idle"
  /\ safety' = [pc |-> "shown", key1 |-> myPkHex, key2 |-> key,
                mine |-> generateSafetyNumber(myPkHex, key),
                theirs |-> generateSafetyNumber(key, myPkHex)]
  /\ UNCHANGED <<storeVars, clockVars, relayVars, poll, pollCount, nextMsg, userVars,
                 sweeper, codec, storageVars, appVars, authCache, loader, wipe, del, auth, root>>

\* the contact-details screen is left: its state is gone
LeaveContact ==
  /\ safety.pc = "shown"
  /\ safety' = NoSafety
  /\ UNCHANGED <<storeVars, clockVars, relayVars, poll, pollCount, nextMsg, userVars,
                 sweeper, codec, storageVars, appVars, authCache, loader, wipe, del, auth, root>>

InitSafety ==
  /\ InitStore
  /\ timer = [id \in Ids |-> 0]
  /\ contacts = Some(<<Alice>>)
  /\ history = [id \in Ids |-> None]

NextSafety ==
  \/ \E myPkHex \in HexStrings(MaxLen), key \in HexStrings(MaxLen) :
       LoadSafetyNumber(myPkHex, key)
  \/ LeaveContact

SpecSafety == InitSafety /\ [][NextSafety]_vars

\* the character codes of the decimal digits
Digits == 48..57

clientVars == <<clockVars, relayVars, poll, pollCount, nextMsg, userVars, sweeper>>

\* how a request to the relay can end: a 2xx response, another status, or
\* fetch throws
Outcomes == {"ok", "status", "throws"}

\* loadIdentity: returns the cache when it is set, else reads the stored key
LoadIdentityRead ==
  /\ loader.pc = "idle"
  /\ ~Has(authCache)
  /\ loader' = [pc |-> "read", stored |-> secret]
  /\ UNCHANGED <<storeVars, clientVars, codec, storageVars, appVars, safety, authCache, wipe, del, auth, root>>

\* loadIdentity from the read on: the digests, then the cache is set
LoadIdentityCache ==
  /\ loader.pc = "read"
  /\ authCache' = IF Has(loader.stored) THEN loader.stored ELSE authCache
  /\ loader' = IdleLoader
  /\ UNCHANGED <<storeVars, clientVars, codec, storageVars, appVars, safety, wipe, del, auth, root>>

\* performFinalWipe ("final") or the expired branch of checkAutoDelete
\* ("auto"): getMyID, and the /delete-account request when there is an id
WipeStart(kind) ==
  /\ wipe.pc = "idle"
  /\ authCache' = IF Has(authCache) THEN authCache ELSE secret
  /\ wipe' = IF Has(authCache')
             THEN [pc |-> "notify", kind |-> kind, outcome |-> ""]
             ELSE [pc |-> "notified", kind |-> kind, outcome |-> "none"]
  /\ UNCHANGED <<storeVars, clientVars, codec, storageVars, appVars, safety, loader, del, auth, root>>

\* a variant in which a request that throws ends the handler
WipeNotifyAborting(outcome) ==
  /\ wipe.pc = "notify"
  /\ wipe' = [wipe EXCEPT !.pc = IF outcome = "throws" THEN "failed" ELSE "notified",
                          !.outcome = outcome]
  /\ UNCHANGED <<storeVars, clientVars, codec, storageVars, appVars, safety, authCache, loader, del, auth, root>>

\* the request ends: its response is not looked at, its exception is caught
WipeNotify(outcome) ==
  /\ wipe.pc = "notify"
  /\ wipe' = [wipe EXCEPT !.pc = "notified", !.outcome = outcome]
  /\ UNCHANGED <<storeVars, clientVars, codec, storageVars, appVars, safety, authCache, loader, del, auth, root>>

\* clearAuthCache(); clearSecureStorageCache()
WipeClearCaches ==
  /\ wipe.pc = "notified"
  /\ authCache' = None
  /\ cachedEncKey' = None
  /\ wipe' = [wipe EXCEPT !.pc = "cleared"]
  /\ UNCHANGED <<storeVars, clientVars, codec, disk, secret, io, put, appVars,
                 safety, loader, del, auth, root>>

\* await AsyncStorage.clear()
WipeClearStorage ==
  /\ wipe.pc = "cleared"
  /\ disk' = [k \in StoreKeys |-> None]
  /\ put' = [k \in StoreKeys |-> None]
  /\ contacts' = None
  /\ history' = [id \in Ids |-> None]
  /\ lastRead' = {}
  /\ wipe' = [wipe EXCEPT !.pc = "storage"]
  /\ UNCHANGED <<clientVars, codec, secret, cachedEncKey, io, appVars,
                 safety, authCache, loader, del, auth, root>>

\* the deleteItemAsync calls; the auto-delete wipe then routes to onboarding
WipeSecrets ==
  /\ wipe.pc = "storage"
  /\ secret' = None
  /\ failedStore' = None
  /\ pinRecord' = None
  /\ segments' = IF wipe.kind = "auto" THEN "onboarding" ELSE segments
  /\ wipe' = [wipe EXCEPT !.pc = IF wipe.kind = "auto" THEN "done" ELSE "alert"]
  /\ UNCHANGED <<storeVars, clientVars, codec, disk, cachedEncKey, io, put, setup,
                 lock, sinceFail, safety, authCache, loader, del, auth, root>>

\* Updates.reloadAsync() of performFinalWipe: the modules are loaded anew
WipeReload ==
  /\ wipe.pc = "alert"
  /\ authCache' = None
  /\ cachedEncKey' = None
  /\ loader' = IdleLoader
  /\ del' = NoDelete
  /\ wipe' = [wipe EXCEPT !.pc = "done"]
  /\ UNCHANGED <<storeVars, clientVars, codec, disk, secret, io, put, appVars,
                 safety, auth, root>>

\* deleteContact of the contacts screen, confirmed: sendDeleteSignal is called
DeleteStart(id) ==
  /\ del.pc = "idle"
  /\ Has(contacts)
  /\ findIndex(Val(contacts), id) # 0
  /\ del' = [pc |-> "signal", id |-> id, outcome |-> "", screen |-> "contacts", sent |-> 0]
  /\ UNCHANGED <<storeVars, clientVars, codec, storageVars, appVars, safety, authCache, loader, wipe, auth, root>>

\* the /send request of sendDeleteSignal ends; its exception is caught
DeleteSignal(outcome) ==
  /\ del.pc = "signal"
  /\ del' = [del EXCEPT !.pc = "write", !.outcome = outcome, !.sent = del.sent + 1]
  /\ UNCHANGED <<storeVars, clientVars, codec, storageVars, appVars, safety, authCache, loader, wipe, auth, root>>

\* the stored list without the contact is written
DeleteWrite ==
  /\ del.pc = "write"
  /\ contacts' = Some(deleteContactLocally(listOf(contacts), del.id))
  /\ del' = [del EXCEPT !.pc = "done"]
  /\ UNCHANGED <<history, lastRead, clientVars, codec, storageVars, appVars, safety, authCache, loader,
                 wipe, auth, root>>

\* deleteContact of the contact-details screen, confirmed: the stored list
\* without the contact is written; no signal is sent
DetailsDelete(id) ==
  /\ del.pc = "idle"
  /\ Has(contacts)
  /\ findIndex(Val(contacts), id) # 0
  /\ contacts' = Some(deleteContactLocally(Val(contacts), id))
  /\ del' = [pc |-> "done", id |-> id, outcome |-> "", screen |-> "details", sent |-> 0]
  /\ UNCHANGED <<history, lastRead, clientVars, codec, storageVars, appVars, safety, authCache, loader,
                 wipe, auth, root>>

\* an account with a profile stored and two contacts
InitWipe ==
  /\ InitClient
  /\ timer = [id \in Ids |-> 0]
  /\ contacts = Some(<<Alice, Bob>>)
  /\ history = [id \in Ids |-> None]
  /\ codec = IdleCodec
  /\ IdleApp
  /\ disk = [k \in StoreKeys |->
               IF k = PROFILE_KEY
               THEN Some(encryptedRaw(<<65>>, 7, deriveKey("s1")))
               ELSE None]
  /\ secret = Some("s1")
  /\ cachedEncKey = None
  /\ io = NoCall
  /\ put = [k \in StoreKeys |-> None]

\* the steps of a wipe after it began
WipeSteps ==
  \/ \E outcome \in Outcomes : WipeNotify(outcome)
  \/ WipeClearCaches
  \/ WipeClearStorage
  \/ WipeSecrets
  \/ WipeReload

\* the steps of a contact deletion after it began
DeleteSteps ==
  \/ \E outcome \in Outcomes : DeleteSignal(outcome)
  \/ DeleteWrite

NextWipe ==
  \/ \E kind \in {"final", "auto"} : WipeStart(kind)
  \/ WipeSteps
  \/ \E id \in {"ID1", "ID2"} : DeleteStart(id)
  \/ DeleteSteps
  \/ LoadIdentityRead
  \/ LoadIdentityCache
  \/ \E k \in StoreKeys : SecureGet(k, 7)
  \/ \E k \in StoreKeys : SecureSet(k, <<65>>, 7)

\* a request that was sent ends, and a handler that can go on does
SpecWipe ==
  InitWipe /\ [][NextWipe]_vars /\ WF_vars(WipeSteps) /\ WF_vars(DeleteSteps)

\* C22: a wipe whose /delete-account request is under way ends with the
\* secret key deleted, and a contact deletion whose DELETE signal is under
\* way ends with the contact gone from the stored list, however the request
\* ends
C22_LocalChangeProceeds ==
  /\ (wipe.pc = "notify") ~> (wipe.pc = "done" /\ secret = None)
  /\ (del.pc = "signal")
       ~> (del.pc \in {"done", "idle"} /\ findIndex(listOf(contacts), del.id) = 0)

\* a wipe whose request threw has deleted the stored data and the secret key
C22_Witness ==
  /\ wipe.pc = "done"
  /\ wipe.outcome = "throws"
  /\ secret = None
  /\ contacts = None
  /\ del.pc = "done"
  /\ del.outcome = "throws"

\* C24: once a wipe has completed, no secret key is stored and neither the
\* identity cache nor the storage key cache holds a value
C24_NothingLeftAfterWipe ==
  wipe.pc = "done"
  => (secret = None /\ authCache = None /\ cachedEncKey = None)

\* ---------------------------------------------------------------------
\* authFetch: the request, the re-registration and the retry

\* the authFetch calls followed
MaxCalls == 2

\* the paths the client requests
Paths == {"/messages", "/send", "/heartbeat", "/delete-account"}

\* what the relay answers: a status, for 401 with the unknown-user error
\* ("401 unknown") or another one; "throws" when fetch gives no response
Responses == {"200", "401 unknown", "401 other", "403", "500", "throws"}

\* authFetch is called: the first fetch is sent
AuthFetch(path) ==
  /\ auth.pc \in {"idle", "returned", "threw"}
  /\ auth.calls < MaxCalls
  /\ auth' = [NoFetch EXCEPT !.pc = "sent", !.path = path, !.sent = 1,
                             !.calls = auth.calls + 1]
  /\ UNCHANGED <<storeVars, clientVars, codec, storageVars, appVars, safety,
                 authCache, loader, wipe, del, root>>

\* a variant that looks for the unknown-user error after every response
AuthResponseAgain(r) ==
  /\ auth.pc = "sent"
  /\ auth' = IF r = "throws" THEN [auth EXCEPT !.pc = "threw"]
             ELSE IF r = "401 unknown"
                  THEN [auth EXCEPT !.pc = "register", !.response = r]
                  ELSE [auth EXCEPT !.pc = "returned", !.response = r, !.returned = r]
  /\ UNCHANGED <<storeVars, clientVars, codec, storageVars, appVars, safety,
                 authCache, loader, wipe, del, root>>

\* a fetch ends: only the first response is looked at for the unknown-user
\* error; an exception leaves authFetch
AuthResponse(r) ==
  /\ auth.pc = "sent"
  /\ auth' = IF r = "throws" THEN [auth EXCEPT !.pc = "threw"]
             ELSE IF auth.sent = 1 /\ r = "401 unknown"
                  THEN [auth EXCEPT !.pc = "register", !.response = r]
                  ELSE [auth EXCEPT !.pc = "returned", !.response = r, !.returned = r]
  /\ UNCHANGED <<storeVars, clientVars, codec, storageVars, appVars, safety,
                 authCache, loader, wipe, del, root>>

\* registerWithServer ends: the second fetch is sent when it succeeded, else
\* the first response is returned
AuthRegister(success) ==
  /\ auth.pc = "register"
  /\ auth' = IF success
             THEN [auth EXCEPT !.pc = "sent", !.sent = @ + 1, !.registered = @ + 1,
                               !.success = TRUE]
             ELSE [auth EXCEPT !.pc = "returned", !.registered = @ + 1,
                               !.returned = auth.response]
  /\ UNCHANGED <<storeVars, clientVars, codec, storageVars, appVars, safety,
                 authCache, loader, wipe, del, root>>

InitAuth ==
  /\ InitStore
  /\ timer = [id \in Ids |-> 0]
  /\ contacts = None
  /\ history = [id \in Ids |-> None]

\* the relay answers and registerWithServer ends
AuthSteps ==
  \/ \E r \in Responses : AuthResponse(r)
  \/ \E success \in BOOLEAN : AuthRegister(success)

NextAuth ==
  \/ \E path \in Paths : AuthFetch(path)
  \/ AuthSteps

SpecAuth == InitAuth /\ [][NextAuth]_vars /\ WF_vars(AuthSteps)

\* C23: one authFetch sends at most two requests and registers at most once;
\* the second request follows only a 401 unknown-user response and a
\* registration that succeeded; what is returned is the last response; and
\* a call that was made ends
C23_OneRetryAtMost ==
  /\ [](/\ auth.sent <= 2
        /\ auth.registered <= 1
        /\ auth.pc = "returned" => auth.returned = auth.response)
  /\ [][ auth'.sent = auth.sent + 1 /\ auth.sent >= 1
         => /\ auth.pc = "register"
            /\ auth.response = "401 unknown"
            /\ auth'.registered = 1
            /\ auth'.success
       ]_vars
  /\ (auth.pc = "sent") ~> (auth.pc \in {"returned", "threw"})

\* a retried request was answered with the unknown-user error again, and that
\* response was returned
C23_Witness ==
  /\ auth.pc = "returned"
  /\ auth.sent = 2
  /\ auth.registered = 1
  /\ auth.returned = "401 unknown"

\* ---------------------------------------------------------------------
\* The control signals a poll receives

\* every signal type from Alice, a handshake, a signal from a stranger and
\* a chat message
SignalEnvelopes ==
  { Seal(Signal("READ"), "aa"),
    Seal(Signal("SCREENSHOT"), "aa"),
    Seal(Signal("DELETE"), "aa"),
    Seal(Signal("PING"), "aa"),
    Seal(ProfileUpdate("n9", "undef", TRUE), "aa"),
    Seal(Accept("ID3", "cc", "n3", TRUE), "aa"),
    SealAnonymous(Accept("ID3", "cc", "n3", TRUE), "cc", "cc"),
    Seal(Signal("SCREENSHOT"), "dd"),
    Seal(Text("hello"), "aa") }

NextSignals ==
  \/ \E env \in SignalEnvelopes : RelayDeliver(env)
  \/ \E p \in Polls : PollFetch(p)
  \/ \E p \in Polls : PollDispatch(p)
  \/ \E p \in Polls : PollWrite(p)
  \/ \E p \in Polls : PollAck(p)

SpecSignals == InitPoll /\ [][NextSignals]_vars

\* the ids of the messages of a list
idsOf(list) == {list[k].id : k \in 1..Len(list)}

\* the ids of the messages stored in any history
storedIds(histories) == UNION {idsOf(listOf(histories[id])) : id \in Ids}

\* the texts of the signal payloads
signalTexts == {env.body.text : env \in {e \in SignalEnvelopes : isSignal(e.body)}}

\* C30: no stored message carries a signal payload; the sub-handler of a
\* SCREENSHOT signal from a known sender writes the history it read with
\* one synthetic message in front, and the sub-handler of any other signal
\* stores no message that was not stored or read before
C30_SignalsAreNotMessages ==
  /\ [](\A id \in Ids : \A k \in 1..Len(listOf(history[id])) :
          Val(history[id])[k].text \notin signalTexts)
  /\ [][ \A p \in Polls :
           (poll[p].pc = "write" /\ poll'[p].pc = "loop" /\ isSignal(poll[p].data))
           => LET P == poll[p]
                  added == storedIds(history') \ (storedIds(history) \cup idsOf(P.hlocal))
              IN  IF P.data.type = "SCREENSHOT" /\ P.sender # NoContact
                  THEN /\ Cardinality(added) = 1
                       /\ Len(Val(history'[P.sender.id])) = Len(P.hlocal) + 1
                       /\ Val(history'[P.sender.id])[1].text = "screenshot"
                       /\ ~Val(history'[P.sender.id])[1].isMe
                       /\ Val(history'[P.sender.id])[1].id \in added
                  ELSE added = {}
       ]_vars
  /\ [][ \A p \in Polls :
           ( /\ poll[p].pc = "loop" /\ poll'[p].pc = "loop"
             /\ poll'[p].i = poll[p].i + 1
             /\ isSignal(poll[p].batch[poll'[p].i].content.body) )
           => history' = history
       ]_vars

\* a SCREENSHOT signal of Alice left its notice in front of her history
C30_Witness ==
  /\ \A p \in Polls : poll[p].pc = "idle"
  /\ Has(history["ID1"])
  /\ Len(Val(history["ID1"])) = 2
  /\ Val(history["ID1"])[1].text = "screenshot"

\* ---------------------------------------------------------------------
\* Envelopes of a blocked contact

\* what Bob, who is blocked, and Alice send
BlockedEnvelopes ==
  { Seal(Text("hello"), "bb"),
    Seal(Media(TRUE), "bb"),
    Seal(Signal("SCREENSHOT"), "bb"),
    Seal(Signal("READ"), "bb"),
    Seal(Signal("DELETE"), "bb"),
    Seal(ProfileUpdate("n9", "undef", TRUE), "bb"),
    Seal(Text("hello"), "aa") }

\* Alice and the blocked Bob, each with one sent message
InitBlocked ==
  /\ InitStore
  /\ timer = [id \in Ids |-> 0]
  /\ contacts = Some(<<Alice, [Bob EXCEPT !.isBlocked = TRUE]>>)
  /\ history = [id \in Ids |-> IF id \in {"ID1", "ID2"}
                                THEN Some(<<Message(0, "mine", 0, TRUE, "sent", 0)>>)
                                ELSE None]

NextBlocked ==
  \/ \E env \in BlockedEnvelopes : RelayDeliver(env)
  \/ \E p \in Polls : PollFetch(p)
  \/ \E p \in Polls : PollDispatch(p)
  \/ \E p \in Polls : PollWrite(p)
  \/ \E p \in Polls : PollAck(p)

SpecBlocked == InitBlocked /\ [][NextBlocked]_vars

\* the contact list holds a record of id with isBlocked set
isBlockedNow(id) ==
  /\ findIndex(listOf(contacts), id) # 0
  /\ recordOf(listOf(contacts), id).isBlocked

\* C31: the sub-handler of an envelope whose sender is blocked writes
\* neither a history nor the contact list
C31_BlockedSenderIgnored ==
  [][ \A p \in Polls :
        (poll[p].pc = "write" /\ poll'[p].pc = "loop" /\ isBlockedNow(poll[p].sender.id))
        => (history' = history /\ contacts' = contacts)
    ]_vars

\* ---------------------------------------------------------------------
\* The read receipt

\* C32: the write of a READ signal's sub-handler sets the status 'read' on
\* the sender's history as it is stored, on the messages with isMe, and
\* leaves every other history and the contact list as they are
C32_ReadChangesStatusOnly ==
  [][ \A p \in Polls :
        PollWrote(p, "READ")
        => /\ history' = [history EXCEPT ![poll[p].sender.id] =
                            Some(markRead(listOf(history[poll[p].sender.id])))]
           /\ contacts' = contacts
    ]_vars

\* ---------------------------------------------------------------------
\* Malformed handshakes and profile updates

\* payloads that fail validateHandshakeData or the PROFILE_UPDATE check
InvalidBodies ==
  { Accept("bad", "cc", "n3", TRUE),
    Accept("ID3", "zz", "n3", TRUE),
    Accept("ID1", "cc", "LONG", TRUE),
    Body("ACCEPT", "ACCEPT", "ID1", "aa", "n3", "HUGE", TRUE),
    Accept("ID3", "cc", "n3", FALSE),
    ProfileUpdate("LONG", "undef", TRUE),
    ProfileUpdate("undef", "undef", TRUE),
    ProfileUpdate("n9", "HUGE", TRUE),
    ProfileUpdate("n9", "undef", FALSE) }

\* Alice sends them, and a valid payload of either kind
InvalidEnvelopes ==
  { Seal(body, "aa") : body \in InvalidBodies }
  \cup { Seal(Accept("ID3", "cc", "n3", TRUE), "aa"),
         Seal(ProfileUpdate("n9", "undef", TRUE), "aa") }

NextInvalid ==
  \/ \E env \in InvalidEnvelopes : RelayDeliver(env)
  \/ \E p \in Polls : PollFetch(p)
  \/ \E p \in Polls : PollDispatch(p)
  \/ \E p \in Polls : PollWrite(p)
  \/ \E p \in Polls : PollAck(p)

SpecInvalid == InitPoll /\ [][NextInvalid]_vars

\* C33: no sub-handler goes on to write for a payload that fails its
\* validation, the contact list changes only by the write of a sub-handler
\* whose payload passed, and no field of a failed payload is in the list
C33_InvalidPayloadChangesNothing ==
  /\ [](\A p \in Polls : poll[p].pc = "write" => poll[p].data \notin InvalidBodies)
  /\ [][ contacts' # contacts
         => \E p \in Polls : /\ poll[p].pc = "write"
                             /\ poll'[p].pc = "loop"
                             /\ poll[p].data \notin InvalidBodies
       ]_vars
  /\ [](\A k \in 1..Len(listOf(contacts)) :
          /\ Val(contacts)[k].id \in HexIds
          /\ Val(contacts)[k].key \in HexKeys
          /\ Val(contacts)[k].name # "LONG"
          /\ Val(contacts)[k].pendingNewKey \in HexKeys \cup {""})

\* a payload that fails validation was processed and acknowledged, the
\* relay kept it, and the contact list is the initial one
C33_Witness ==
  /\ \A p \in Polls : poll[p].pc = "idle"
  /\ Len(acks) = 1
  /\ Len(queue) = 1
  /\ queue[1].content.body \in InvalidBodies
  /\ contacts = Some(<<Alice, [Bob EXCEPT !.isBlocked = TRUE]>>)

\* ---------------------------------------------------------------------
\* The paths that add a contact

\* the friend requests the relay lists for this user: req.from
Requests ==
  { Contact("ID3", "cc", "n3", "null"),
    Contact("bad", "cc", "n3", "null"),
    Contact("ID3", "zz", "n3", "null"),
    Contact("ID1", "dd", "n1", "null") }

NextRequests ==
  \/ \E newContact \in Requests : UiAccept(newContact)
  \/ UiWrite
  \/ \E env \in HandshakeEnvelopes : RelayDeliver(env)
  \/ \E p \in Polls : PollFetch(p)
  \/ \E p \in Polls : PollDispatch(p)
  \/ \E p \in Polls : PollWrite(p)
  \/ \E p \in Polls : PollAck(p)

SpecRequests == InitPoll /\ [][NextRequests]_vars

\* C34: every record of the contact list has an id of 12 hex characters
\* and a key of 64 hex characters
C34_StoredContactsAreValid ==
  \A k \in 1..Len(listOf(contacts)) :
    /\ Val(contacts)[k].id \in HexIds
    /\ Val(contacts)[k].key \in HexKeys

\* ---------------------------------------------------------------------
\* Removing a contact, here and on the peer

DeleteEnvelopes ==
  { Seal(Signal("DELETE"), "aa"),
    Seal(Text("hello"), "bb") }

\* two contacts, each with a history
InitDelete ==
  /\ InitStore
  /\ timer = [id \in Ids |-> 0]
  /\ contacts = Some(<<Alice, Bob>>)
  /\ history = [id \in Ids |-> IF id \in {"ID1", "ID2"}
                                THEN Some(<<Message(0, "mine", 0, TRUE, "sent", 0)>>)
                                ELSE None]

NextDelete ==
  \/ \E id \in HexIds : DeleteStart(id)
  \/ \E outcome \in Outcomes : DeleteSignal(outcome)
  \/ DeleteWrite
  \/ \E id \in HexIds : DetailsDelete(id)
  \/ \E env \in DeleteEnvelopes : RelayDeliver(env)
  \/ \E p \in Polls : PollFetch(p)
  \/ \E p \in Polls : PollDispatch(p)
  \/ \E p \in Polls : PollWrite(p)
  \/ \E p \in Polls : PollAck(p)

SpecDelete == InitDelete /\ [][NextDelete]_vars

\* C35: a removal made on either screen has sent one DELETE signal, and
\* the write of a DELETE signal's sub-handler leaves no record, history or
\* last-read marker of the sender
C35_RemovalIsSignalled ==
  /\ [](del.pc = "done" => del.sent = 1)
  /\ [][ \A p \in Polls :
           PollWrote(p, "DELETE")
           => /\ findIndex(listOf(contacts'), poll[p].sender.id) = 0
              /\ history'[poll[p].sender.id] = None
              /\ poll[p].sender.id \notin lastRead'
       ]_vars

\* ---------------------------------------------------------------------
\* The id as a function of the key

\* the first 12 hex characters, in upper case, of the SHA-256 of the key's
\* hex string: Alice's and Bob's ids are those of their keys
computeID(key) ==
  IF key = "aa" THEN "ID1"
  ELSE IF key = "bb" THEN "ID2"
  ELSE IF key = "cc" THEN "ID3"
  ELSE IF key = "dd" THEN "ID4"
  ELSE "ID5"

\* C36: every record of the contact list has the id derived from its key,
\* and a record with securityWarning has the id derived from its pending key
C36_IdDerivedFromKey ==
  \A k \in 1..Len(listOf(contacts)) :
    /\ Val(contacts)[k].id = computeID(Val(contacts)[k].key)
    /\ Val(contacts)[k].securityWarning
         => Val(contacts)[k].id = computeID(Val(contacts)[k].pendingNewKey)

\* ---------------------------------------------------------------------
\* Approving a key that is displayed

\* handshakes that claim Alice's id with other keys, and a message of hers
ApproveEnvelopes ==
  { SealAnonymous(Accept("ID1", "cc", "n3", TRUE), "cc", "cc"),
    SealAnonymous(Accept("ID1", "dd", "n3", TRUE), "dd", "dd"),
    Seal(Text("hello"), "aa") }

\* a key is staged for Alice
InitApprove ==
  /\ InitStore
  /\ timer = [id \in Ids |-> 0]
  /\ contacts = Some(<<AliceWarned, Bob>>)
  /\ history = [id \in Ids |-> None]

NextApprove ==
  \/ \E env \in ApproveEnvelopes : RelayDeliver(env)
  \/ \E p \in Polls : PollFetch(p)
  \/ \E p \in Polls : PollDispatch(p)
  \/ \E p \in Polls : PollWrite(p)
  \/ \E p \in Polls : PollAck(p)
  \/ \E id \in {"ID1", "ID2"} : UiOpen(id)
  \/ UiBegin("approveNewKey", "")
  \/ UiWrite
  \/ UiReload

SpecApprove == InitApprove /\ [][NextApprove]_vars

\* C37: the write of approveNewKey installs the pending key the screen
\* shows, or leaves the contact's key as it is
C37_ApprovesDisplayedKey ==
  [][ (UiWrote /\ ui.op = "approveNewKey"
         /\ findIndex(listOf(contacts), ui.id) # 0
         /\ findIndex(listOf(contacts'), ui.id) # 0)
      => \/ recordOf(listOf(contacts'), ui.id).key = screen.pendingNewKey
         \/ recordOf(listOf(contacts'), ui.id).key = recordOf(listOf(contacts), ui.id).key
    ]_vars

\* ---------------------------------------------------------------------
\* The encryption key after the identity is replaced

\* C38: the secureSet of finishOnboarding, which follows generateNewIdentity,
\* encrypts with the key derived from the secret key then stored
C38_KeyFollowsIdentity ==
  [][ (segments = "onboarding" /\ secret' # secret
         /\ io'.op = "secureSet" /\ ~io'.threw)
      => cachedEncKey' = Some(deriveKey(Val(secret')))
    ]_vars

-----------------------------------------------------------------------------
(* RootLayoutContent: the lock gate in front of the navigation stack         *)

\* what RootLayoutContent returns: the LockScreen alone when isLocked && hasPin,
\* the Stack with the tabs (and their polling timers) otherwise
contentMounted == root.mounted /\ ~(root.isLocked /\ root.hasPin)

\* the first render: both states at their defaults; the mount effect calls
\* checkPin and subscribes to AppState
RootMount ==
  /\ ~root.mounted
  /\ root' = [NoRoot EXCEPT !.mounted = TRUE, !.checkPin = "pending"]
  /\ UNCHANGED <<storeVars, clientVars, codec, storageVars, appVars,
                 safety, authCache, loader, wipe, del, auth>>

\* checkPin up to its await: SecureStore.getItemAsync(APP_LOCK_KEY)
checkPinRead ==
  /\ root.mounted
  /\ root.checkPin = "pending"
  /\ root' = [root EXCEPT !.checkPin = "read", !.storedValue = Has(pinRecord)]
  /\ UNCHANGED <<storeVars, clientVars, codec, storageVars, appVars,
                 safety, authCache, loader, wipe, del, auth>>

\* checkPin after its await: setHasPin and setIsLocked from what was read;
\* the effect depends on [hasPin], so a change of hasPin runs it, and checkPin,
\* once more
checkPinApply ==
  /\ root.mounted
  /\ root.checkPin = "read"
  /\ root' = [root EXCEPT
                !.hasPin = root.storedValue,
                !.isLocked = IF root.storedValue THEN TRUE ELSE root.isLocked,
                !.checkPin = IF root.storedValue # root.hasPin THEN "pending" ELSE "idle"]
  /\ UNCHANGED <<storeVars, clientVars, codec, storageVars, appVars,
                 safety, authCache, loader, wipe, del, auth>>

\* the AppState listener: leaving the foreground locks if the effect's hasPin
\* is set; coming back changes no state of the gate (checkAutoDelete and the
\* last-active timestamp are the wipe's, above)
HandleAppState(nextAppState) ==
  /\ root.mounted
  /\ nextAppState # root.appState
  /\ root' = [root EXCEPT
                !.appState = nextAppState,
                !.isLocked = IF nextAppState = "background" /\ root.hasPin
                             THEN TRUE ELSE root.isLocked,
                !.unlocked = IF nextAppState = "background" THEN FALSE ELSE root.unlocked]
  /\ UNCHANGED <<storeVars, clientVars, codec, storageVars, appVars,
                 safety, authCache, loader, wipe, del, auth>>

\* onUnlock of the gate's LockScreen, called after the right code or biometrics
RootUnlock ==
  /\ root.mounted
  /\ root.appState = "active"
  /\ root.isLocked /\ root.hasPin
  /\ root' = [root EXCEPT !.isLocked = FALSE, !.unlocked = TRUE]
  /\ UNCHANGED <<storeVars, clientVars, codec, storageVars, appVars,
                 safety, authCache, loader, wipe, del, auth>>

\* the settings screen's LockScreen in setup mode, step "confirm": stores the
\* new record and calls the settings screen's onUnlock, which sets states of
\* the settings screen only; the user has just typed the code twice
SetupConfirm(enteredInput, salt) ==
  /\ contentMounted
  /\ root.appState = "active"
  /\ pinRecord' = Some(PinRecord(hashPin(enteredInput, salt), salt))
  /\ root' = [root EXCEPT !.unlocked = TRUE]
  /\ UNCHANGED <<storeVars, clientVars, codec, storageVars, identityVars,
                 failedStore, lock, sinceFail,
                 safety, authCache, loader, wipe, del, auth>>

\* onVerifySuccess of the settings screen with nextAction 'disable'
DisableLock ==
  /\ contentMounted
  /\ root.appState = "active"
  /\ Has(pinRecord)
  /\ pinRecord' = None
  /\ UNCHANGED <<storeVars, clientVars, codec, storageVars, identityVars,
                 failedStore, lock, sinceFail,
                 safety, authCache, loader, wipe, del, auth, root>>

\* launch with or without a PIN record
InitRoot ==
  /\ InitClient
  /\ timer = [id \in Ids |-> 0]
  /\ contacts = None
  /\ history = [id \in Ids |-> None]
  /\ codec = IdleCodec
  /\ IdleStorage
  /\ segments = "(tabs)"
  /\ setup = IdleSetup
  /\ failedStore = None
  /\ sinceFail = 300
  /\ lock = Unmounted
  /\ pinRecord \in {None, Some(PinRecord(hashPin("1234", "a"), "a"))}

NextRoot ==
  \/ RootMount
  \/ checkPinRead
  \/ checkPinApply
  \/ \E nextAppState \in {"active", "background"} : HandleAppState(nextAppState)
  \/ RootUnlock
  \/ \E enteredInput \in Pins, salt \in Salts : SetupConfirm(enteredInput, salt)
  \/ DisableLock

SpecRoot == InitRoot /\ [][NextRoot]_vars

\* C39: whenever a PIN record exists and the user has not unlocked since launch
\* or since the app last left the foreground, the navigation stack is not
\* mounted, only the LockScreen is
C39_PinKeepsContentUnmounted ==
  (root.mounted /\ Has(pinRecord) /\ ~root.unlocked) => ~contentMounted

====
